---- MODULE Spec2Model ----
(***************************************************************************)
(* A model of the ingestion engine of cryptoquant-rust: the Downloader's   *)
(* pair filter, File.download with its checksum verification, the File     *)
(* Collection download stream and TradesTable.index with index_file and    *)
(* the index log.                                                          *)
(*                                                                         *)
(* Three specifications share the module, each moving one group of         *)
(* variables and leaving the other groups at their idle values:            *)
(*   SpecPairs     Downloader builders and get_pairs                       *)
(*   SpecDownload  concurrent File.download calls against disk and bucket  *)
(*   Spec          TradesTable.index: fetch task, channel, index tasks     *)
(***************************************************************************)
EXTENDS Integers, Sequences, FiniteSets, TLC

(***************************************************************************)
(* Option<T>: None is the empty sequence, Some(x) the one-element sequence *)
(***************************************************************************)
None == <<>>

Some(x) == <<x>>

IsSome(o) == Len(o) = 1

Unwrap(o) == o[1]

(***************************************************************************)
(* Strings are sequences of one-character strings, so that prefix, suffix  *)
(* and substring tests are computed and not assumed.                       *)
(***************************************************************************)
\* str::starts_with
StartsWith(s, f) == Len(f) <= Len(s) /\ SubSeq(s, 1, Len(f)) = f

\* str::ends_with
EndsWith(s, f) == Len(f) <= Len(s) /\ SubSeq(s, Len(s) - Len(f) + 1, Len(s)) = f

\* str::contains
Contains(s, f) == \E i \in 0..(Len(s) - Len(f)) : SubSeq(s, i + 1, i + Len(f)) = f

\* All sequences over S of length at most n
SeqsUpTo(S, n) == UNION {[1..k -> S] : k \in 0..n}

(***************************************************************************)
(* Bounds of the model                                                     *)
(***************************************************************************)
\* longest bucket listing given to get_pairs
MaxListing == 2

\* Characters of pair names
Alphabet == {"B", "D", "U"}

\* Pair names the bucket may list, one letter per coin: S3's BTCUSDC (BU),
\* BTCDOWNUSDC (BDU), BNBBTC (UB), and a name that a filter entry equals
PairNames == {<<"B", "U">>, <<"B", "D", "U">>, <<"U", "B">>, <<"U">>}

\* Filter vectors the builders may be given
FilterVecs == {<<>>, << <<"D">> >>, << <<"U">> >>, << <<"B">>, <<"U">> >>, << <<"D", "U">> >>}

\* File.download calls made in one run of SpecDownload
MaxCalls == 2

\* Local paths of the Files that are downloaded
Paths == {"p", "q"}

\* Archive bodies the bucket may serve (each name stands for a byte
\* sequence; two of them differ in at least one bit)
Contents == {"b1", "b2"}

\* Files in the File Collection of one index() run
MaxFiles == 2

\* Program constants
ChannelCapacity == 10

IndexParallelism == 10

DownloadConcurrency == 50

CommitEvery == 8192

InserterMaxRows == 500000

U32Bits == 32

U64Bits == 64

\* Unsigned integers are little-endian sequences of 16-bit limbs, so that
\* 64-bit counts and their truncation to 32 bits are computed exactly
LimbBase == 2 ^ 16

LimbsOf(bits) == bits \div 16

\* u64::MAX
U64Max == [i \in 1..LimbsOf(U64Bits) |-> LimbBase - 1]

\* A small number as a u64
U64(n) == <<n>> \o [i \in 1..(LimbsOf(U64Bits) - 1) |-> 0]

\* Rows an archive may hold: none, one, and 2^32 + 1, which does not fit in
\* 32 bits
RowCounts == {U64(0), U64(1), <<1, 0, 1, 0>>}

\* Pairs whose objects get_files lists
MaxPairs == 3

\* Largest File Collection whose download is followed against the 50 permits
MaxCollection == 52

\* Most Files the channel hands to index() when the 10 permits are followed
MaxDownloaded == 13

\* Longest record stream of a File whose rows are followed one by one
MaxStream == 2

\* Most index_file runs into the index log, and the last clock reading
MaxRuns == 3

MaxClock == 2

\* Largest File Collection index() is followed through to its return
MaxPipeline == 22

\* Most commit points a followed file passes
MaxCommits == 2

\* The width of index_file's write counter
U16Bits == 16

\* Objects in one listing given to from_objects
MaxObjects == 4

\* The checksum suffix, one atom
ChecksumSuffix == <<".CHECKSUM">>

\* Keys a listing may hold: two archives, their checksums, the checksum of
\* a checksum, and the bare suffix
ObjectKeys ==
    {<<"data", "/", "a">>, <<"data", "/", "a", ".CHECKSUM">>,
     <<"data", "/", "b">>, <<"data", "/", "b", ".CHECKSUM">>,
     <<"data", "/", "a", ".CHECKSUM", ".CHECKSUM">>, <<".CHECKSUM">>}

\* Values of data.dir that expand: plain, with trailing slashes, under ~
DataDirs == {<<"/", "d">>, <<"/", "d", "/">>, <<"/", "d", "/", "/">>, <<"~", "/", "d">>}

\* The data.dir under which listings are turned into collections
ConfigDataDir == <<"/", "d">>

\* A data.dir that names a variable which is not set
UnsetDataDir == <<"$U", "/", "d">>

\* What follows data/ in a bucket key
KeyRests ==
    {<<"spot", "/", "a">>, <<"a">>, <<"spot", "/", "data", "/", "a">>,
     <<"data", "/", "a">>, <<"spot", "/", "a", "/", "data", "/">>}

\* Entry counts a downloaded ZIP archive may have
EntryCounts == 0..2

\* The lowest trade id and the earliest trade time of an archive with rows
LowestId == <<5, 0>>

LowestTime == <<9, 0, 0, 0>>

\* The table index() fills
TableName == "TRADES_ANY_USDC"

VARIABLES
    \* Downloader (SpecPairs)
    pair_filter_excluded,    \* Option<Vec<String>>
    pair_filter_starts_with, \* Option<Vec<String>>
    pair_filter_ends_with,   \* Option<Vec<String>>
    listed,                  \* what list_pairs returned to the last get_pairs
    pairs,                   \* Option<Vec<Pair>>, each Pair by its name
    get_pairs_result,        \* "none", "ok", "err": the last get_pairs call
    \* File.download (SpecDownload)
    disk,                    \* path -> "absent", "partial" or the content written
    served,                  \* path -> the archive body the bucket serves
    checksum_body,           \* path -> the text of the checksum object
    calls,                   \* call -> the position and record of a download call
    first_call,              \* path -> the first call made for it (0: none yet)
    \* TradesTable.index (Spec)
    main,                    \* the task running index(): position, locals, result
    fetch,                   \* the spawned fetch task: position, result, collection
    dl,                      \* file -> "todo", "inflight", "sending", "sent", "failed"
    send_queue,              \* files whose tx.send is waiting, oldest first
    chan,                    \* the buffer of the mpsc channel
    completed,               \* files whose download() returned Ok, in that order
    emitted,                 \* files the channel has accepted, in that order
    task,                    \* file -> its index_file task
    index_log,               \* rows of TRADES_INDEX_LOG, in insertion order
    \* Constructors and pure functions (SpecFn)
    applied,                 \* the last function applied and its arguments
    returned,                \* what it returned
    \* FileCollection.download by counts (SpecPool)
    pool,                    \* Files waiting, downloading, sending, finished
    \* The permits of index() by counts (SpecPermits)
    indexers,                \* Files to come, held, running, ended and free permits
    \* The rows of index_file (SpecRows)
    stream,                  \* task -> its record stream, position and inserter
    \* TRADES_INDEX_LOG under re-indexing (SpecReindex)
    log_table,               \* the rows the table holds, in insertion order
    log_merged,              \* no row has been inserted since the last merge
    index_runs,              \* every row index_row has written, in that order
    \* index_file on one File, write by write (SpecBatch)
    batch,                   \* position, rows read, tx, commits, end calls, rows flushed
    \* index() by counts, to its return (SpecPipeline)
    pipe,                    \* Files waiting, downloading, sending, buffered, held, running
    \* index() by counts, with a collection that never runs out (SpecBacklog)
    backlog                  \* Files downloading, sending, buffered, held, running

varsPairs == <<pair_filter_excluded, pair_filter_starts_with, pair_filter_ends_with,
               listed, pairs, get_pairs_result>>

varsDownload == <<disk, served, checksum_body, calls, first_call>>

varsIndex == <<main, fetch, dl, send_queue, chan, completed, emitted, task, index_log>>

varsFn == <<applied, returned>>

varsPool == <<pool>>

varsPermits == <<indexers>>

varsRows == <<stream>>

varsReindex == <<log_table, log_merged, index_runs>>

varsLater == <<varsPool, varsPermits, varsRows, varsReindex>>

varsBatch == <<batch>>

varsPipe == <<pipe>>

varsBacklog == <<backlog>>

varsLast == <<varsBatch, varsPipe, varsBacklog>>

vars == <<varsPairs, varsDownload, varsIndex, varsFn, varsLater, varsLast>>

(***************************************************************************)
(* Downloader: builders and get_pairs                                      *)
(***************************************************************************)
\* Downloader::new: no filter, no pairs
InitPairs ==
    /\ pair_filter_excluded = None
    /\ pair_filter_starts_with = None
    /\ pair_filter_ends_with = None
    /\ listed = <<>>
    /\ pairs = None
    /\ get_pairs_result = "none"

\* The builders take the Downloader by value: they run before it is listed
\* and shared.
WithPairExcluded(v) ==
    /\ get_pairs_result = "none"
    /\ pair_filter_excluded' = Some(v)
    /\ UNCHANGED <<pair_filter_starts_with, pair_filter_ends_with, listed, pairs,
                   get_pairs_result>>

WithPairStartsWith(v) ==
    /\ get_pairs_result = "none"
    /\ pair_filter_starts_with' = Some(v)
    /\ UNCHANGED <<pair_filter_excluded, pair_filter_ends_with, listed, pairs,
                   get_pairs_result>>

WithPairEndsWith(v) ==
    /\ get_pairs_result = "none"
    /\ pair_filter_ends_with' = Some(v)
    /\ UNCHANGED <<pair_filter_excluded, pair_filter_starts_with, listed, pairs,
                   get_pairs_result>>

\* A slip in the closure: the positive filters are consulted before the
\* excluded filter
RetainPairExclusionLast(name) ==
    IF IsSome(pair_filter_starts_with)
       /\ (\E i \in 1..Len(Unwrap(pair_filter_starts_with)) : StartsWith(name, Unwrap(pair_filter_starts_with)[i]))
    THEN TRUE
    ELSE IF IsSome(pair_filter_ends_with)
            /\ (\E i \in 1..Len(Unwrap(pair_filter_ends_with)) : EndsWith(name, Unwrap(pair_filter_ends_with)[i]))
    THEN TRUE
    ELSE FALSE

\* A slip in the closure: the ends_with entries are looked for anywhere in
\* the name
RetainPairEndsAnywhere(name) ==
    IF IsSome(pair_filter_excluded)
       /\ (\E i \in 1..Len(Unwrap(pair_filter_excluded)) : Contains(name, Unwrap(pair_filter_excluded)[i]))
    THEN FALSE
    ELSE IF IsSome(pair_filter_starts_with)
            /\ (\E i \in 1..Len(Unwrap(pair_filter_starts_with)) : StartsWith(name, Unwrap(pair_filter_starts_with)[i]))
    THEN TRUE
    ELSE IF IsSome(pair_filter_ends_with)
            /\ (\E i \in 1..Len(Unwrap(pair_filter_ends_with)) : Contains(name, Unwrap(pair_filter_ends_with)[i]))
    THEN TRUE
    ELSE FALSE

\* The closure given to pairs.retain in get_pairs
RetainPair(name) ==
    IF IsSome(pair_filter_excluded)
       /\ (\E i \in 1..Len(Unwrap(pair_filter_excluded)) : Contains(name, Unwrap(pair_filter_excluded)[i]))
    THEN FALSE
    ELSE IF IsSome(pair_filter_starts_with)
            /\ (\E i \in 1..Len(Unwrap(pair_filter_starts_with)) : StartsWith(name, Unwrap(pair_filter_starts_with)[i]))
    THEN TRUE
    ELSE IF IsSome(pair_filter_ends_with)
            /\ (\E i \in 1..Len(Unwrap(pair_filter_ends_with)) : EndsWith(name, Unwrap(pair_filter_ends_with)[i]))
    THEN TRUE
    ELSE FALSE

\* get_pairs with a listing that succeeds
GetPairs(listing) ==
    /\ listed' = listing
    /\ pairs' = Some(SelectSeq(listing, RetainPair))
    /\ get_pairs_result' = "ok"
    /\ UNCHANGED <<pair_filter_excluded, pair_filter_starts_with, pair_filter_ends_with>>

\* get_pairs when list_pairs fails: the error is returned, pairs is not set
GetPairsListFails ==
    /\ get_pairs_result' = "err"
    /\ UNCHANGED <<pair_filter_excluded, pair_filter_starts_with, pair_filter_ends_with,
                   listed, pairs>>

(***************************************************************************)
(* Checksums: SHA-256, its hex form and the comparison                     *)
(***************************************************************************)
\* SHA-256 of a file's bytes, as bytes. A stand-in that is injective on
\* Contents and on the empty file: b1 -> AB, b2 -> 5C, empty -> E3.
Sha256(c) == IF c = "b1" THEN <<171>> ELSE IF c = "b2" THEN <<92>> ELSE <<227>>

HexDigitsUpper ==
    <<"0", "1", "2", "3", "4", "5", "6", "7", "8", "9", "A", "B", "C", "D", "E", "F">>

HexDigitsLower ==
    <<"0", "1", "2", "3", "4", "5", "6", "7", "8", "9", "a", "b", "c", "d", "e", "f">>

\* format!("{:X}", digest): two upper-case hex digits per byte
RECURSIVE FormatUpperHex(_)
FormatUpperHex(bytes) ==
    IF bytes = <<>> THEN <<>>
    ELSE <<HexDigitsUpper[(Head(bytes) \div 16) + 1], HexDigitsUpper[(Head(bytes) % 16) + 1]>>
         \o FormatUpperHex(Tail(bytes))

\* The same digest as the bucket's checksum files write it, in lower case
RECURSIVE FormatLowerHex(_)
FormatLowerHex(bytes) ==
    IF bytes = <<>> THEN <<>>
    ELSE <<HexDigitsLower[(Head(bytes) \div 16) + 1], HexDigitsLower[(Head(bytes) % 16) + 1]>>
         \o FormatLowerHex(Tail(bytes))

\* u8::to_ascii_lowercase on one character
ToAsciiLower(ch) ==
    IF \E i \in 11..16 : HexDigitsUpper[i] = ch
    THEN HexDigitsLower[CHOOSE i \in 11..16 : HexDigitsUpper[i] = ch]
    ELSE ch

\* str::eq_ignore_ascii_case
EqIgnoreAsciiCase(a, b) ==
    /\ Len(a) = Len(b)
    /\ \A i \in 1..Len(a) : ToAsciiLower(a[i]) = ToAsciiLower(b[i])

\* s.split(' ').next().unwrap(): the text before the first space, all of s
\* when it holds none
RECURSIVE SplitSpaceFirst(_)
SplitSpaceFirst(s) ==
    IF s = <<>> \/ Head(s) = " " THEN <<>>
    ELSE <<Head(s)>> \o SplitSpaceFirst(Tail(s))

\* A checksum object as the bucket writes it: "<hex>  <file name>\n"
ChecksumObject(hex) == hex \o <<" ", " ", "f", "\n">>

\* The checksum objects the bucket may hold for a path: the digest of the
\* archive as it was published, b1, in either letter case. The body served
\* is b1, or b2 when a bit has flipped.
ChecksumBodies ==
    {ChecksumObject(FormatUpperHex(Sha256("b1"))), ChecksumObject(FormatLowerHex(Sha256("b1")))}

\* The comparison of File::checksum_matches, given the checksum object's
\* text and the content of the local file
ChecksumCompare(body, content) ==
    EqIgnoreAsciiCase(SplitSpaceFirst(body), FormatUpperHex(Sha256(content)))

(***************************************************************************)
(* File.download, one step per suspension point                            *)
(***************************************************************************)
CallIds == 1..MaxCalls

IdleCall ==
    [pc |-> "idle", path |-> "p", result |-> "none",
     on_disk_before |-> FALSE,  \* what is_downloaded answered
     at_call |-> "absent",      \* the file at path when download was invoked
     after_first_ok |-> FALSE,  \* invoked after the path's first call returned Ok
     gets |-> 0,                \* bucket GETs this call has made
     fetched |-> "none",        \* the body this call streamed to path
     checksum_read |-> FALSE,   \* this call has read the checksum object
     at_return |-> "absent"]    \* the file at path when download returned

\* The download group at rest, for the specifications that do not move it
IdleDownload ==
    /\ disk = [p \in Paths |-> "absent"]
    /\ served = [p \in Paths |-> "b1"]
    /\ checksum_body = [p \in Paths |-> ChecksumObject(FormatLowerHex(Sha256("b1")))]
    /\ calls = [t \in CallIds |-> IdleCall]
    /\ first_call = [p \in Paths |-> 0]

\* A data directory in which a path is absent or left by an earlier run, and
\* a bucket that serves any body and any checksum object for it
InitDownload ==
    /\ disk \in [Paths -> {"absent", "partial"} \cup Contents]
    /\ served \in [Paths -> Contents]
    /\ checksum_body \in [Paths -> ChecksumBodies]
    /\ calls = [t \in CallIds |-> IdleCall]
    /\ first_call = [p \in Paths |-> 0]

Return(t, res) ==
    [calls EXCEPT ![t].pc = "done", ![t].result = res, ![t].at_return = disk'[calls[t].path]]

\* A slip: download() goes on to fetch without asking is_downloaded
DownloadWithoutCheck(t, p) ==
    /\ calls[t].pc = "idle"
    /\ \A u \in CallIds : u < t => calls[u].pc # "idle"
    /\ first_call' = IF first_call[p] = 0 THEN [first_call EXCEPT ![p] = t] ELSE first_call
    /\ calls' = [calls EXCEPT ![t] =
                    [calls[t] EXCEPT
                        !.pc = "create",
                        !.path = p,
                        !.on_disk_before = (disk[p] # "absent"),
                        !.at_call = disk[p],
                        !.after_first_ok =
                            /\ first_call[p] # 0
                            /\ calls[first_call[p]].pc = "done"
                            /\ calls[first_call[p]].result = "ok"]]
    /\ UNCHANGED <<disk, served, checksum_body>>

\* download() is invoked on the File at path p and awaits is_downloaded:
\* a path that exists returns Ok at once
Download(t, p) ==
    /\ calls[t].pc = "idle"
    /\ \A u \in CallIds : u < t => calls[u].pc # "idle"
    /\ first_call' = IF first_call[p] = 0 THEN [first_call EXCEPT ![p] = t] ELSE first_call
    /\ LET started == [calls[t] EXCEPT
                          !.path = p,
                          !.on_disk_before = (disk[p] # "absent"),
                          !.at_call = disk[p],
                          !.after_first_ok =
                              /\ first_call[p] # 0
                              /\ calls[first_call[p]].pc = "done"
                              /\ calls[first_call[p]].result = "ok"]
       IN  calls' = [calls EXCEPT ![t] =
                        IF disk[p] # "absent"
                        THEN [started EXCEPT !.pc = "done", !.result = "ok", !.at_return = disk[p]]
                        ELSE [started EXCEPT !.pc = "create"]]
    /\ UNCHANGED <<disk, served, checksum_body>>

\* A slip: the file is opened with File::create, which truncates a file
\* that exists
CreateTruncating(t) ==
    /\ calls[t].pc = "create"
    /\ disk' = [disk EXCEPT ![calls[t].path] = "partial"]
    /\ calls' = [calls EXCEPT ![t].pc = "stream"]
    /\ UNCHANGED <<served, checksum_body, first_call>>

\* get_object_to_file: File::create_new fails on a path that exists, else
\* leaves an empty file to stream into
CreateNew(t) ==
    /\ calls[t].pc = "create"
    /\ IF disk[calls[t].path] # "absent"
       THEN /\ UNCHANGED disk
            /\ calls' = Return(t, "err_exists")
       ELSE /\ disk' = [disk EXCEPT ![calls[t].path] = "partial"]
            /\ calls' = [calls EXCEPT ![t].pc = "stream"]
    /\ UNCHANGED <<served, checksum_body, first_call>>

\* get_object_to_writer streams the whole body into the file
StreamObject(t) ==
    /\ calls[t].pc = "stream"
    /\ disk' = [disk EXCEPT ![calls[t].path] = served[calls[t].path]]
    /\ calls' = [calls EXCEPT ![t].pc = "checksum", ![t].gets = @ + 1,
                              ![t].fetched = served[calls[t].path]]
    /\ UNCHANGED <<served, checksum_body, first_call>>

\* A slip: a failed fetch takes the unfinished file away
StreamFailsRemoves(t) ==
    /\ calls[t].pc = "stream"
    /\ disk' = [disk EXCEPT ![calls[t].path] = "absent"]
    /\ calls' = [Return(t, "err_fetch") EXCEPT ![t].gets = @ + 1]
    /\ UNCHANGED <<served, checksum_body, first_call>>

\* get_object_to_writer fails part-way: download returns the error and the
\* file stays as it is
StreamFails(t) ==
    /\ calls[t].pc = "stream"
    /\ UNCHANGED disk
    /\ calls' = [Return(t, "err_fetch") EXCEPT ![t].gets = @ + 1]
    /\ UNCHANGED <<served, checksum_body, first_call>>

\* checksum_matches: read the checksum object, hash the local file, compare
ChecksumMatches(t) ==
    /\ calls[t].pc = "checksum"
    /\ UNCHANGED disk
    /\ IF ChecksumCompare(checksum_body[calls[t].path], disk[calls[t].path])
       THEN calls' = [Return(t, "ok") EXCEPT ![t].gets = @ + 1, ![t].checksum_read = TRUE]
       ELSE calls' = [calls EXCEPT ![t].pc = "remove", ![t].gets = @ + 1,
                                   ![t].checksum_read = TRUE]
    /\ UNCHANGED <<served, checksum_body, first_call>>

\* read_object of the checksum object fails: download returns the error
ChecksumReadFails(t) ==
    /\ calls[t].pc = "checksum"
    /\ UNCHANGED disk
    /\ calls' = [Return(t, "err_checksum_read") EXCEPT ![t].gets = @ + 1]
    /\ UNCHANGED <<served, checksum_body, first_call>>

\* A slip: the mismatch is reported and the file is left behind
RemoveFileSkipped(t) ==
    /\ calls[t].pc = "remove"
    /\ UNCHANGED disk
    /\ calls' = Return(t, "checksum_mismatch")
    /\ UNCHANGED <<served, checksum_body, first_call>>

\* On a mismatch: fs::remove_file, then the checksum error
RemoveFile(t) ==
    /\ calls[t].pc = "remove"
    /\ disk' = [disk EXCEPT ![calls[t].path] = "absent"]
    /\ calls' = Return(t, "checksum_mismatch")
    /\ UNCHANGED <<served, checksum_body, first_call>>

(***************************************************************************)
(* TradesTable.index: the fetch task, the channel and the index tasks      *)
(***************************************************************************)
FileIds == 1..MaxFiles

\* `x as u32`: the low 32 bits
AsU32(x) == SubSeq(x, 1, LimbsOf(U32Bits))

\* a += b on limbs: the carry runs upwards and the one out of the top limb is
\* lost
RECURSIVE AddLimbs(_, _, _)
AddLimbs(a, b, carry) ==
    IF a = <<>> THEN <<>>
    ELSE <<(Head(a) + Head(b) + carry) % LimbBase>>
         \o AddLimbs(Tail(a), Tail(b), (Head(a) + Head(b) + carry) \div LimbBase)

\* AddableQuantities::add_assign on the rows field
AddU64(a, b) == AddLimbs(a, b, 0)

\* u32::MAX
U32Max == [i \in 1..LimbsOf(U32Bits) |-> LimbBase - 1]

\* A log record
Logged(level, message) == [level |-> level, message |-> message]

\* An index_file task that has not been spawned. entries: the entry count
\* records() found (-1: not opened); on_disk: the archive is at its path;
\* start_id, start_dt: the running minima; logs: what the task has logged
IdleTask ==
    [pc |-> "none", written |-> U64(0), stats_rows |-> U64(0), pending |-> U64(0),
     entries |-> -1, on_disk |-> FALSE, start_id |-> U32Max, start_dt |-> U64Max,
     logs |-> <<>>]

InitIndex ==
    /\ main = [pc |-> "start", result |-> "none", held |-> 0, handles |-> <<>>,
               next_handle |-> 1, file_count |-> 0, stats_rows |-> U64(0)]
    /\ fetch = [pc |-> "unspawned", result |-> "none", collected |-> FALSE, nfiles |-> 0]
    /\ dl = [f \in FileIds |-> "todo"]
    /\ send_queue = <<>>
    /\ chan = <<>>
    /\ completed = <<>>
    /\ emitted = <<>>
    /\ task = [f \in FileIds |-> IdleTask]
    /\ index_log = <<>>

\* index_file tasks that hold a permit of the semaphore
Running == {f \in FileIds : task[f].pc \in {"records", "stream", "end", "log"}}

\* Downloads in flight inside for_each_concurrent
InFlight == {f \in FileIds : dl[f] \in {"inflight", "sending"}}

\* index(): create() succeeds, the channel is made and the fetch task spawned
IndexCreate ==
    /\ main.pc = "start"
    /\ main' = [main EXCEPT !.pc = "recv"]
    /\ fetch' = [fetch EXCEPT !.pc = "get_pairs"]
    /\ UNCHANGED <<dl, send_queue, chan, completed, emitted, task, index_log>>

\* index(): create() fails and the error is returned
IndexCreateFails ==
    /\ main.pc = "start"
    /\ main' = [main EXCEPT !.pc = "done", !.result = "err"]
    /\ UNCHANGED <<fetch, dl, send_queue, chan, completed, emitted, task, index_log>>

\* fetch task: downloader.get_pairs() succeeds
FetchGetPairs ==
    /\ fetch.pc = "get_pairs"
    /\ fetch' = [fetch EXCEPT !.pc = "get_files"]
    /\ UNCHANGED <<main, dl, send_queue, chan, completed, emitted, task, index_log>>

\* fetch task: get_pairs fails; `?` ends the task, whose result nobody reads,
\* and drops tx
FetchGetPairsFails ==
    /\ fetch.pc = "get_pairs"
    /\ fetch' = [fetch EXCEPT !.pc = "done", !.result = "err"]
    /\ UNCHANGED <<main, dl, send_queue, chan, completed, emitted, task, index_log>>

\* fetch task: get_files lists every pair and merges n Files
FetchGetFiles(n) ==
    /\ fetch.pc = "get_files"
    /\ fetch' = [fetch EXCEPT !.pc = "download", !.collected = TRUE, !.nfiles = n]
    /\ UNCHANGED <<main, dl, send_queue, chan, completed, emitted, task, index_log>>

\* fetch task: one pair's listing fails, so get_files fails; tx is dropped
FetchGetFilesFails ==
    /\ fetch.pc = "get_files"
    /\ fetch' = [fetch EXCEPT !.pc = "done", !.result = "err"]
    /\ UNCHANGED <<main, dl, send_queue, chan, completed, emitted, task, index_log>>

\* FileCollection::download: a File's future gets a permit and calls download
DownloadStart(f) ==
    /\ fetch.pc = "download"
    /\ f <= fetch.nfiles
    /\ dl[f] = "todo"
    /\ Cardinality(InFlight) < DownloadConcurrency
    /\ dl' = [dl EXCEPT ![f] = "inflight"]
    /\ UNCHANGED <<main, fetch, send_queue, chan, completed, emitted, task, index_log>>

\* file.download() returns Ok and the future calls tx.send(file)
DownloadOk(f) ==
    /\ dl[f] = "inflight"
    /\ dl' = [dl EXCEPT ![f] = "sending"]
    /\ completed' = Append(completed, f)
    /\ send_queue' = Append(send_queue, f)
    /\ UNCHANGED <<main, fetch, chan, emitted, task, index_log>>

\* A slip: a failed download ends the whole stream
DownloadFailsAbortsStream(f) ==
    /\ dl[f] = "inflight"
    /\ dl' = [dl EXCEPT ![f] = "failed"]
    /\ fetch' = [fetch EXCEPT !.pc = "done", !.result = "err"]
    /\ UNCHANGED <<main, send_queue, chan, completed, emitted, task, index_log>>

\* file.download() returns Err: it is logged and the future ends
DownloadFails(f) ==
    /\ dl[f] = "inflight"
    /\ dl' = [dl EXCEPT ![f] = "failed"]
    /\ UNCHANGED <<main, fetch, send_queue, chan, completed, emitted, task, index_log>>

\* The channel accepts the oldest waiting send once its buffer has room
Send ==
    /\ send_queue # <<>>
    /\ Len(chan) < ChannelCapacity
    /\ chan' = Append(chan, Head(send_queue))
    /\ emitted' = Append(emitted, Head(send_queue))
    /\ dl' = [dl EXCEPT ![Head(send_queue)] = "sent"]
    /\ send_queue' = Tail(send_queue)
    /\ UNCHANGED <<main, fetch, completed, task, index_log>>

\* for_each_concurrent has run every future: download returns, the fetch task
\* ends and the last tx is dropped
FetchDone ==
    /\ fetch.pc = "download"
    /\ \A f \in 1..fetch.nfiles : dl[f] \in {"sent", "failed"}
    /\ fetch' = [fetch EXCEPT !.pc = "done", !.result = "ok"]
    /\ UNCHANGED <<main, dl, send_queue, chan, completed, emitted, task, index_log>>

\* index(): rx.recv() yields a File
Recv ==
    /\ main.pc = "recv"
    /\ chan # <<>>
    /\ main' = [main EXCEPT !.pc = "acquire", !.held = Head(chan)]
    /\ chan' = Tail(chan)
    /\ UNCHANGED <<fetch, dl, send_queue, completed, emitted, task, index_log>>

\* A slip: the loop ends as soon as the buffer is empty
RecvClosedOnEmptyBuffer ==
    /\ main.pc = "recv"
    /\ chan = <<>>
    /\ main' = [main EXCEPT !.pc = "collect"]
    /\ UNCHANGED <<fetch, dl, send_queue, chan, completed, emitted, task, index_log>>

\* index(): rx.recv() yields None: every tx is dropped and the buffer is empty
RecvClosed ==
    /\ main.pc = "recv"
    /\ chan = <<>>
    /\ fetch.pc = "done"
    /\ main' = [main EXCEPT !.pc = "collect"]
    /\ UNCHANGED <<fetch, dl, send_queue, chan, completed, emitted, task, index_log>>

\* index(): a permit is acquired and index_file(file) is spawned
Spawn ==
    /\ main.pc = "acquire"
    /\ Cardinality(Running) < IndexParallelism
    /\ task' = [task EXCEPT ![main.held].pc = "records", ![main.held].on_disk = TRUE]
    /\ main' = [main EXCEPT !.pc = "recv", !.held = 0, !.handles = Append(@, main.held)]
    /\ UNCHANGED <<fetch, dl, send_queue, chan, completed, emitted, index_log>>

\* A slip: records() takes the first entry of an archive with any number of
\* entries
IndexRecordsAnyCount(f, entries) ==
    /\ task[f].pc = "records"
    /\ task' = [task EXCEPT ![f].pc = "stream", ![f].entries = entries,
                            ![f].logs = Append(@, Logged("info", "Indexing"))]
    /\ UNCHANGED <<main, fetch, dl, send_queue, chan, completed, emitted, index_log>>

\* index_file: file.records() opens the archive, which has one entry
IndexRecords(f, entries) ==
    /\ task[f].pc = "records"
    /\ entries = 1
    /\ task' = [task EXCEPT ![f].pc = "stream", ![f].entries = entries,
                            ![f].logs = Append(@, Logged("info", "Indexing"))]
    /\ UNCHANGED <<main, fetch, dl, send_queue, chan, completed, emitted, index_log>>

\* index_file: file.records() fails: the archive has an entry count other
\* than one, or it has one and the file or its entry cannot be read
IndexRecordsFails(f, entries) ==
    /\ task[f].pc = "records"
    /\ task' = [task EXCEPT ![f].pc = "err", ![f].entries = entries,
                            ![f].logs = Append(@, Logged("info", "Indexing"))]
    /\ UNCHANGED <<main, fetch, dl, send_queue, chan, completed, emitted, index_log>>

\* The rows written up to the last commit point of a loop over n rows, and
\* those written since
CommitPoint(n) == [n EXCEPT ![1] = @ - (@ % CommitEvery)]

SinceCommitPoint(n) == U64(n[1] % CommitEvery)

\* n < max_rows: the inserter's row limit is not reached
BelowMaxRows(n) ==
    /\ n[3] = 0
    /\ n[4] = 0
    /\ n[2] <= InserterMaxRows \div LimbBase
    /\ n[2] * LimbBase + n[1] < InserterMaxRows

\* index_file: the loop writes the n rows of the archive to the inserter and
\* adds to stats what the commit points return: the rows up to the last
\* commit point, or nothing when no commit point found a limit reached
IndexStream(f, n, held_back) ==
    /\ task[f].pc = "stream"
    /\ held_back => BelowMaxRows(n)
    /\ task' = [task EXCEPT ![f].pc = "end",
                            ![f].written = n,
                            ![f].start_id = IF n = U64(0) THEN @ ELSE LowestId,
                            ![f].start_dt = IF n = U64(0) THEN @ ELSE LowestTime,
                            ![f].logs = IF ~held_back /\ CommitPoint(n) # U64(0)
                                        THEN Append(@, Logged("debug", "Commit"))
                                        ELSE @,
                            ![f].stats_rows = IF held_back THEN U64(0) ELSE CommitPoint(n),
                            ![f].pending = IF held_back THEN n ELSE SinceCommitPoint(n)]
    /\ UNCHANGED <<main, fetch, dl, send_queue, chan, completed, emitted, index_log>>

\* index_file: a row fails to parse, or a write or commit fails, after k rows
IndexStreamFails(f, k) ==
    /\ task[f].pc = "stream"
    /\ task' = [task EXCEPT ![f].pc = "err", ![f].written = U64(k)]
    /\ UNCHANGED <<main, fetch, dl, send_queue, chan, completed, emitted, index_log>>

\* index_file: inserter.end() flushes the rest and returns its quantities
IndexEnd(f) ==
    /\ task[f].pc = "end"
    /\ task' = [task EXCEPT ![f].pc = "log",
                            ![f].logs = Append(@, Logged("info", "Indexed in")),
                            ![f].stats_rows = AddU64(@, task[f].pending),
                            ![f].pending = U64(0)]
    /\ UNCHANGED <<main, fetch, dl, send_queue, chan, completed, emitted, index_log>>

\* A slip: the error of inserter.end() is dropped and the task goes on
IndexEndFailsIgnored(f) ==
    /\ task[f].pc = "end"
    /\ task' = [task EXCEPT ![f].pc = "log"]
    /\ UNCHANGED <<main, fetch, dl, send_queue, chan, completed, emitted, index_log>>

\* index_file: inserter.end() fails
IndexEndFails(f) ==
    /\ task[f].pc = "end"
    /\ task' = [task EXCEPT ![f].pc = "err"]
    /\ UNCHANGED <<main, fetch, dl, send_queue, chan, completed, emitted, index_log>>

\* The FileIndexLogRow index_file builds
FileIndexLogRow(f) ==
    [filename |-> f, table |-> TableName, num_rows |-> AsU32(task[f].stats_rows),
     start_id |-> task[f].start_id, start_period_dt |-> task[f].start_dt]

\* index_file: index_row writes the file's row to the index log; Ok(stats)
IndexRow(f) ==
    /\ task[f].pc = "log"
    /\ index_log' = Append(index_log, FileIndexLogRow(f))
    /\ task' = [task EXCEPT ![f].pc = "ok"]
    /\ UNCHANGED <<main, fetch, dl, send_queue, chan, completed, emitted>>

\* index_file: TradesIndexLogTable::new or index_row fails
IndexRowFails(f) ==
    /\ task[f].pc = "log"
    /\ task' = [task EXCEPT ![f].pc = "err"]
    /\ UNCHANGED <<main, fetch, dl, send_queue, chan, completed, emitted, index_log>>

\* index(): handle.await?? on a task that returned Ok(stats)
Collect ==
    /\ main.pc = "collect"
    /\ main.next_handle <= Len(main.handles)
    /\ task[main.handles[main.next_handle]].pc = "ok"
    /\ main' = [main EXCEPT !.next_handle = @ + 1, !.file_count = @ + 1,
                            !.stats_rows = AddU64(@, task[main.handles[main.next_handle]].stats_rows)]
    /\ UNCHANGED <<fetch, dl, send_queue, chan, completed, emitted, task, index_log>>

\* index(): handle.await?? on a task that returned Err: index returns it
CollectErr ==
    /\ main.pc = "collect"
    /\ main.next_handle <= Len(main.handles)
    /\ task[main.handles[main.next_handle]].pc = "err"
    /\ main' = [main EXCEPT !.pc = "done", !.result = "err"]
    /\ UNCHANGED <<fetch, dl, send_queue, chan, completed, emitted, task, index_log>>

\* index(): every handle has been awaited; Ok(())
CollectDone ==
    /\ main.pc = "collect"
    /\ main.next_handle > Len(main.handles)
    /\ main' = [main EXCEPT !.pc = "done", !.result = "ok"]
    /\ UNCHANGED <<fetch, dl, send_queue, chan, completed, emitted, task, index_log>>

(***************************************************************************)
(* Constructors and pure functions                                         *)
(***************************************************************************)
\* Result<T>: Ok(v) and Err(e)
Ok(v) == [ok |-> TRUE, val |-> v]

Err(e) == [ok |-> FALSE, err |-> e]

\* No function has been applied yet; each behaviour applies one function to
\* one choice of arguments
IdleFn ==
    /\ applied = [fn |-> "none"]
    /\ returned = [fn |-> "none"]

\* Strings of keys and paths are sequences of atoms: a separator or a word.
\* str::replace: every non-overlapping match of pat, from the left
RECURSIVE Replace(_, _, _)
Replace(s, pat, rep) ==
    IF s = <<>> THEN <<>>
    ELSE IF StartsWith(s, pat)
         THEN rep \o Replace(SubSeq(s, Len(pat) + 1, Len(s)), pat, rep)
         ELSE <<Head(s)>> \o Replace(Tail(s), pat, rep)

\* str::trim_end_matches on one character
RECURSIVE TrimEndMatches(_, _)
TrimEndMatches(s, c) ==
    IF s # <<>> /\ s[Len(s)] = c
    THEN TrimEndMatches(SubSeq(s, 1, Len(s) - 1), c)
    ELSE s

\* Path::join: an absolute rel replaces base; otherwise one separator joins them
PathJoin(base, rel) ==
    IF StartsWith(rel, <<"/">>) THEN rel
    ELSE IF base = <<>> THEN rel
    ELSE IF base[Len(base)] = "/" THEN base \o rel
    ELSE base \o <<"/">> \o rel

\* The home directory that a leading ~ expands to
HomeDir == <<"/", "home">>

\* shellexpand::full: a leading ~ becomes the home directory; a variable
\* that is not set ($U) is an error
ShellExpand(s) ==
    IF \E i \in 1..Len(s) : s[i] = "$U" THEN None
    ELSE IF s # <<>> /\ Head(s) = "~" /\ (Len(s) = 1 \/ s[2] = "/")
         THEN Some(HomeDir \o Tail(s))
         ELSE Some(s)

\* File::new with config.data.dir = dir
FileNew(pair, object_key, checksum_key, dir) ==
    LET data_dir == TrimEndMatches(dir, "/")
        joined == PathJoin(data_dir, Replace(object_key, <<"data", "/">>, <<"binance", "/">>))
        expanded == ShellExpand(joined)
    IN  IF expanded = None
        THEN Err("Failed to expand path")
        ELSE Ok([object_key |-> object_key, checksum_key |-> checksum_key,
                 pair |-> pair, path |-> Unwrap(expanded)])

\* A slip: the checksum suffix is not stripped
GroupPrefixUnstripped(key, checksum_suffix) == key

\* The prefix from_objects groups a key under
GroupPrefix(key, checksum_suffix) ==
    IF EndsWith(key, checksum_suffix)
    THEN SubSeq(key, 1, Len(key) - Len(checksum_suffix))
    ELSE key

\* The object at the last of the positions in where, as an Option: a later
\* object of a group overwrites an earlier one
LastAt(objects, where) ==
    IF where = {} THEN None
    ELSE Some(objects[CHOOSE i \in where : \A j \in where : j <= i])

\* from_objects, the fold: prefix -> (archive object, checksum object)
GroupedObjects(objects, checksum_suffix) ==
    [prefix \in {GroupPrefix(objects[i], checksum_suffix) : i \in 1..Len(objects)} |->
        [object |-> LastAt(objects, {i \in 1..Len(objects) :
                        /\ ~EndsWith(objects[i], checksum_suffix)
                        /\ GroupPrefix(objects[i], checksum_suffix) = prefix}),
         checksum |-> LastAt(objects, {i \in 1..Len(objects) :
                        /\ EndsWith(objects[i], checksum_suffix)
                        /\ GroupPrefix(objects[i], checksum_suffix) = prefix})]]

\* The orders in which a HashMap may hand out the keys in S
RECURSIVE Orderings(_)
Orderings(S) ==
    IF S = {} THEN {<<>>}
    ELSE UNION {{<<x>> \o rest : rest \in Orderings(S \ {x})} : x \in S}

\* from_objects with the groups visited in the given order: collect stops
\* at the first Err
FromObjectsIn(order, pair, objects, checksum_suffix, dir) ==
    LET grouped == GroupedObjects(objects, checksum_suffix)
        made == [i \in 1..Len(order) |->
                    IF IsSome(grouped[order[i]].object) /\ IsSome(grouped[order[i]].checksum)
                    THEN FileNew(pair, Unwrap(grouped[order[i]].object),
                                 Unwrap(grouped[order[i]].checksum), dir)
                    ELSE Err("Missing an object or a checksum")]
    IN  IF \E i \in 1..Len(order) : ~made[i].ok
        THEN Err(made[CHOOSE i \in 1..Len(order) :
                        ~made[i].ok /\ \A j \in 1..(i - 1) : made[j].ok].err)
        ELSE Ok([i \in 1..Len(order) |-> made[i].val])

\* FileCollection::from_objects applied to a listing
CallFromObjects(pair, objects, checksum_suffix, dir) ==
    /\ applied' = [fn |-> "from_objects", pair |-> pair, objects |-> objects,
                   checksum_suffix |-> checksum_suffix, dir |-> dir]
    /\ \E order \in Orderings(DOMAIN GroupedObjects(objects, checksum_suffix)) :
          returned' = [fn |-> "from_objects",
                       res |-> FromObjectsIn(order, pair, objects, checksum_suffix, dir)]

\* File::new applied to a key
CallFileNew(pair, object_key, checksum_key, dir) ==
    /\ applied' = [fn |-> "File::new", pair |-> pair, object_key |-> object_key,
                   checksum_key |-> checksum_key, dir |-> dir]
    /\ returned' = [fn |-> "File::new", res |-> FileNew(pair, object_key, checksum_key, dir)]

\* A panic (todo!, an arithmetic overflow in a checking build): no value is
\* returned
Panic(msg) == [ok |-> FALSE, panic |-> msg]

\* The variants of Asset, Cadence and DataType
Assets == {"futures", "option", "spot"}

Cadences == {"daily", "monthly"}

DataTypes == {"aggtrades", "klines", "trades"}

\* Downloader::new; bucket_ok: whether Bucket::new succeeds
DownloaderNew(name, asset, cadence, data_type, bucket_ok) ==
    IF asset \in {"futures", "option"}
    THEN Panic("not yet implemented: Futures | Option not implemented.")
    ELSE IF ~bucket_ok
    THEN Err("Failed to create bucket")
    ELSE Ok([name |-> name, asset |-> asset, cadence |-> cadence, data_type |-> data_type,
             pair_filter_excluded |-> None, pair_filter_starts_with |-> None,
             pair_filter_ends_with |-> None, pairs |-> None, files |-> None])

\* Downloader::new applied to a coordinate
CallDownloaderNew(name, asset, cadence, data_type, bucket_ok) ==
    /\ applied' = [fn |-> "Downloader::new", name |-> name, asset |-> asset,
                   cadence |-> cadence, data_type |-> data_type, bucket_ok |-> bucket_ok]
    /\ returned' = [fn |-> "Downloader::new",
                    res |-> DownloaderNew(name, asset, cadence, data_type, bucket_ok)]

\* What may follow the digest in a checksum object: two spaces and the file
\* name, a tab and the file name, a newline only, nothing
ChecksumTails == {<<" ", " ", "f", "\n">>, <<"\t", "f", "\n">>, <<"\n">>, <<>>}

\* File::checksum_matches applied to the checksum object's text and the
\* content of the local file
CallChecksumMatches(body, content) ==
    /\ applied' = [fn |-> "checksum_matches", body |-> body, content |-> content]
    /\ returned' = [fn |-> "checksum_matches", res |-> Ok(ChecksumCompare(body, content))]

\* Texts a boolean column of a source row may hold
BoolTexts == {"true", "True", "false", "False", "TRUE", "1", ""}

\* bool_from_str
BoolFromStr(text) ==
    IF text \in {"true", "True"} THEN Ok(TRUE)
    ELSE IF text \in {"false", "False"} THEN Ok(FALSE)
    ELSE Err("invalid value: Must be truthy (true, True) or falsey (false, False)")

\* Deserializing a Row from a record of seven columns, the numeric ones
\* already read: is_buyer_maker goes through bool_from_str; is_best_match is
\* #[serde(skip)], so its column is not read and the field is bool::default()
DeserializeRow(record) ==
    IF ~BoolFromStr(record.is_buyer_maker).ok
    THEN Err(BoolFromStr(record.is_buyer_maker).err)
    ELSE Ok([id |-> record.id, price |-> record.price, qty |-> record.qty,
             quote_qty |-> record.quote_qty, time |-> record.time,
             is_buyer_maker |-> BoolFromStr(record.is_buyer_maker).val,
             is_best_match |-> FALSE])

\* One record of the archive's CSV read into a Row
CallDeserializeRow(record) ==
    /\ applied' = [fn |-> "Row::deserialize", record |-> record]
    /\ returned' = [fn |-> "Row::deserialize", res |-> DeserializeRow(record)]

\* The source rows TradesRow::new is applied to
FileRows ==
    [id : {0, 1}, price : {1, 2}, qty : {1, 3}, quote_qty : {2, 5}, time : {0, 7},
     is_buyer_maker : BOOLEAN, is_best_match : {FALSE}]

\* A slip: side copies is_buyer_maker
TradesRowNewSideCopied(pair, row) ==
    [dt |-> row.time, pair |-> pair, side |-> row.is_buyer_maker, price |-> row.price,
     qty |-> row.qty, notional |-> row.quote_qty, id |-> row.id]

\* TradesRow::new
TradesRowNew(pair, row) ==
    [dt |-> row.time, pair |-> pair, side |-> ~row.is_buyer_maker, price |-> row.price,
     qty |-> row.qty, notional |-> row.quote_qty, id |-> row.id]

\* index_file: the row written to the inserter for a source row of a File
CallTradesRowNew(pair, row) ==
    /\ applied' = [fn |-> "TradesRow::new", pair |-> pair, row |-> row]
    /\ returned' = [fn |-> "TradesRow::new", res |-> Ok(TradesRowNew(pair, row))]

\* Counts the accumulator is applied to: 1, 2^63 and u64::MAX
QuantityValues == {U64(1), <<0, 0, 0, LimbBase \div 2>>, U64Max}

\* a + b does not fit in 64 bits: the carry out of the top limb
OverflowsU64(a, b) == AddLimbs(a \o <<0>>, b \o <<0>>, 0)[LimbsOf(U64Bits) + 1] = 1

\* AddableQuantities::add_assign: three `+=` on u64. On overflow `+=`
\* panics in a build with overflow checks and wraps in one without.
AddAssign(lhs, rhs, overflow_checks) ==
    IF overflow_checks /\ (\/ OverflowsU64(lhs.bytes, rhs.bytes)
                           \/ OverflowsU64(lhs.rows, rhs.rows)
                           \/ OverflowsU64(lhs.transactions, rhs.transactions))
    THEN Panic("attempt to add with overflow")
    ELSE Ok([bytes |-> AddU64(lhs.bytes, rhs.bytes),
             rows |-> AddU64(lhs.rows, rhs.rows),
             transactions |-> AddU64(lhs.transactions, rhs.transactions)])

\* stats += quantities
CallAddAssign(lhs, rhs, overflow_checks) ==
    /\ applied' = [fn |-> "add_assign", lhs |-> lhs, rhs |-> rhs,
                   overflow_checks |-> overflow_checks]
    /\ returned' = [fn |-> "add_assign", res |-> AddAssign(lhs, rhs, overflow_checks)]

\* AddableQuantities::default()
DefaultQuantities == [bytes |-> U64(0), rows |-> U64(0), transactions |-> U64(0)]

\* Accumulators the laws of addition are tried on: the default, small ones
\* and ones whose sums do not fit in 64 bits
MonoidOperands ==
    {DefaultQuantities}
        \cup [bytes : {U64(1), U64Max}, rows : {U64(0), <<0, 0, 0, LimbBase \div 2>>},
              transactions : {U64(1)}]

\* lhs += rhs where lhs is the outcome of an earlier addition: a panic
\* earlier leaves nothing to add to
AddAssignAfter(earlier, rhs, overflow_checks) ==
    IF earlier.ok THEN AddAssign(earlier.val, rhs, overflow_checks) ELSE earlier

\* The sums the laws compare, each computed with add_assign
CallAddAssignLaws(a, b, c, overflow_checks) ==
    /\ applied' = [fn |-> "add_assign laws", a |-> a, b |-> b, c |-> c,
                   overflow_checks |-> overflow_checks]
    /\ returned' =
          [fn |-> "add_assign laws",
           default_plus_a |-> AddAssign(DefaultQuantities, a, overflow_checks),
           a_plus_default |-> AddAssign(a, DefaultQuantities, overflow_checks),
           ab_c |-> AddAssignAfter(AddAssign(a, b, overflow_checks), c, overflow_checks),
           a_bc |-> IF AddAssign(b, c, overflow_checks).ok
                    THEN AddAssign(a, AddAssign(b, c, overflow_checks).val, overflow_checks)
                    ELSE AddAssign(b, c, overflow_checks)]

\* What Pair::get_files may return for one pair: a failed listing, a failed
\* pairing of the objects, or a collection of none, one or two Files
PairOutcomes ==
    {Err("Could not list bucket objects"),
     Err("Could not create FileCollection from objects"),
     Ok(<<>>), Ok(<<"f1">>), Ok(<<"f1", "f2">>)}

\* The Files of pair number i, each named with its pair
FilesOfPair(i, names) == [k \in 1..Len(names) |-> <<i, names[k]>>]

\* files.extend(pair_files) over the handles from..Len(outcomes), in order
RECURSIVE ExtendAll(_, _)
ExtendAll(outcomes, from) ==
    IF from > Len(outcomes) THEN <<>>
    ELSE FilesOfPair(from, outcomes[from].val) \o ExtendAll(outcomes, from + 1)

\* A slip: a pair whose task failed is skipped
RECURSIVE ExtendOks(_, _)
ExtendOks(outcomes, from) ==
    IF from > Len(outcomes) THEN <<>>
    ELSE (IF outcomes[from].ok THEN FilesOfPair(from, outcomes[from].val) ELSE <<>>)
         \o ExtendOks(outcomes, from + 1)

GetFilesSkipsFailed(pairs_known, get_pairs_ok, outcomes) ==
    IF ~pairs_known /\ ~get_pairs_ok
    THEN [res |-> Err("Failed to list S3 bucket objects"), files |-> None]
    ELSE [res |-> Ok("self"), files |-> Some(ExtendOks(outcomes, 1))]

\* Downloader::get_files on a Downloader whose files are None. pairs_known:
\* self.pairs is Some; get_pairs_ok: the get_pairs it calls otherwise
\* succeeds; outcomes: what each pair's task returns, in the order of pairs.
\* Returns the result and self.files as the call leaves it
GetFiles(pairs_known, get_pairs_ok, outcomes) ==
    IF ~pairs_known /\ ~get_pairs_ok
    THEN [res |-> Err("Failed to list S3 bucket objects"), files |-> None]
    ELSE IF \E i \in 1..Len(outcomes) : ~outcomes[i].ok
    THEN [res |-> Err(outcomes[CHOOSE i \in 1..Len(outcomes) :
                         ~outcomes[i].ok /\ \A j \in 1..(i - 1) : outcomes[j].ok].err),
          files |-> None]
    ELSE [res |-> Ok("self"), files |-> Some(ExtendAll(outcomes, 1))]

\* Downloader::get_files applied to the pairs and what their listings give
CallGetFiles(pairs_known, get_pairs_ok, outcomes) ==
    /\ applied' = [fn |-> "get_files", pairs_known |-> pairs_known,
                   get_pairs_ok |-> get_pairs_ok, outcomes |-> outcomes]
    /\ returned' = [fn |-> "get_files",
                    res |-> GetFiles(pairs_known, get_pairs_ok, outcomes).res,
                    files |-> GetFiles(pairs_known, get_pairs_ok, outcomes).files]

\* stringify!(variant) for the variants of the three enums, by type
VariantNames ==
    [Asset |-> {<<"F", "u", "t", "u", "r", "e", "s">>, <<"O", "p", "t", "i", "o", "n">>,
                <<"S", "p", "o", "t">>},
     Cadence |-> {<<"D", "a", "i", "l", "y">>, <<"M", "o", "n", "t", "h", "l", "y">>},
     DataType |-> {<<"A", "g", "g", "T", "r", "a", "d", "e", "s">>,
                   <<"K", "L", "i", "n", "e", "s">>, <<"T", "r", "a", "d", "e", "s">>}]

\* The upper-case letters of the variant names and their lower-case forms
UpperLetters == <<"A", "D", "F", "K", "L", "M", "O", "S", "T">>

LowerLetters == <<"a", "d", "f", "k", "l", "m", "o", "s", "t">>

\* One character in lower case
LowerChar(ch) ==
    IF \E i \in 1..Len(UpperLetters) : UpperLetters[i] = ch
    THEN LowerLetters[CHOOSE i \in 1..Len(UpperLetters) : UpperLetters[i] = ch]
    ELSE ch

\* A slip: the variant's name as it is written
AsStrVerbatim(variant) == variant

\* as_str: lower!(stringify!(variant))
AsStr(variant) == [i \in 1..Len(variant) |-> LowerChar(variant[i])]

\* Display::fmt: write!(f, "{}", self.as_str())
DisplayFmt(variant) == AsStr(variant)

\* AsRef<Path>::as_ref: Path::new(self.as_str()), as the path's text
AsRefPath(variant) == AsStr(variant)

\* The three forms of one variant
CallAsStr(type, variant) ==
    /\ applied' = [fn |-> "as_str", type |-> type, variant |-> variant]
    /\ returned' = [fn |-> "as_str", as_str |-> AsStr(variant),
                    display |-> DisplayFmt(variant), as_ref |-> AsRefPath(variant)]

\* One character in upper case
UpperChar(ch) ==
    IF \E i \in 1..Len(LowerLetters) : LowerLetters[i] = ch
    THEN UpperLetters[CHOOSE i \in 1..Len(LowerLetters) : LowerLetters[i] = ch]
    ELSE ch

\* str::to_uppercase and str::to_ascii_uppercase, which agree on ASCII text
ToUppercase(text) == [i \in 1..Len(text) |-> UpperChar(text[i])]

\* Database and table names given at construction, in several letter cases
DatabaseNames == {<<"d", "a", "t">>, <<"D", "A", "T">>, <<"D", "a", "t">>}

TableNames == {<<"t", "o">>, <<"T", "O">>}

\* create_client(database): the database the client is bound to
CreateClient(database) == ToUppercase(database)

\* TradesTable::new
TradesTableNew(database, name) ==
    [client |-> CreateClient(database), database |-> database, name |-> ToUppercase(name)]

\* index_file: the database and table fields of the FileIndexLogRow, and
\* the database of the client TradesIndexLogTable::new(&self.database) makes
IndexRowNames(table) ==
    [database |-> table.database, table |-> table.name,
     log_client |-> CreateClient(table.database)]

\* A table is constructed and a file indexed through it
CallIndexRowNames(database, name) ==
    /\ applied' = [fn |-> "index_row names", database |-> database, name |-> name]
    /\ returned' = [fn |-> "index_row names",
                    inserted_into |-> TradesTableNew(database, name).client,
                    row |-> IndexRowNames(TradesTableNew(database, name))]

(***************************************************************************)
(* FileCollection.download and the permits of index(), by counts           *)
(***************************************************************************)
\* The pool at rest, for the specifications that do not move it
IdlePool ==
    pool = [pc |-> "idle", tx |-> FALSE, waiting |-> 0, downloading |-> 0, sending |-> 0,
            finished |-> 0]

\* download(tx) is called on a collection of any size, with or without a
\* channel
InitPool ==
    \E size \in 0..MaxCollection, tx \in BOOLEAN :
        pool = [pc |-> "running", tx |-> tx, waiting |-> size, downloading |-> 0,
                sending |-> 0, finished |-> 0]

\* A slip: every File's future is started as soon as the stream yields it
PoolStartUnbounded ==
    /\ pool.pc = "running"
    /\ pool.waiting > 0
    /\ pool' = [pool EXCEPT !.waiting = @ - 1, !.downloading = @ + 1]

\* for_each_concurrent takes the next File while fewer than num_semaphore
\* futures are unfinished; the future takes one of the num_semaphore permits
\* and calls file.download()
PoolStart ==
    /\ pool.pc = "running"
    /\ pool.waiting > 0
    /\ pool.downloading + pool.sending < DownloadConcurrency
    /\ pool' = [pool EXCEPT !.waiting = @ - 1, !.downloading = @ + 1]

\* file.download() returns Ok: with a channel the future goes on to tx.send,
\* without one it ends and its permit is dropped
PoolDownloadOk ==
    /\ pool.downloading > 0
    /\ pool' = IF pool.tx
               THEN [pool EXCEPT !.downloading = @ - 1, !.sending = @ + 1]
               ELSE [pool EXCEPT !.downloading = @ - 1, !.finished = @ + 1]

\* file.download() returns Err: it is logged and the future ends
PoolDownloadErr ==
    /\ pool.downloading > 0
    /\ pool' = [pool EXCEPT !.downloading = @ - 1, !.finished = @ + 1]

\* tx.send is accepted by the channel: the future ends
PoolSend ==
    /\ pool.sending > 0
    /\ pool' = [pool EXCEPT !.sending = @ - 1, !.finished = @ + 1]

\* Every future has ended: download returns Ok(())
PoolReturn ==
    /\ pool.pc = "running"
    /\ pool.waiting = 0
    /\ pool.downloading = 0
    /\ pool.sending = 0
    /\ pool' = [pool EXCEPT !.pc = "returned"]

\* The permits at rest, for the specifications that do not move them
IdlePermits ==
    indexers = [pc |-> "idle", files |-> 0, held |-> 0, running |-> 0, ok |-> 0,
                failed |-> 0, permits |-> IndexParallelism]

\* index() has made Semaphore::new(10) and the channel will yield any number
\* of downloaded Files
InitPermits ==
    \E n \in 0..MaxDownloaded :
        indexers = [pc |-> "recv", files |-> n, held |-> 0, running |-> 0, ok |-> 0,
                    failed |-> 0, permits |-> IndexParallelism]

\* rx.recv() yields the next File
PermitRecv ==
    /\ indexers.pc = "recv"
    /\ indexers.held = 0
    /\ indexers.files > 0
    /\ indexers' = [indexers EXCEPT !.files = @ - 1, !.held = 1]

\* acquire_owned() returns a permit and index_file(file) is spawned with it
PermitSpawn ==
    /\ indexers.held = 1
    /\ indexers.permits > 0
    /\ indexers' = [indexers EXCEPT !.held = 0, !.permits = @ - 1, !.running = @ + 1]

\* rx.recv() yields None: the loop ends
PermitRecvClosed ==
    /\ indexers.pc = "recv"
    /\ indexers.held = 0
    /\ indexers.files = 0
    /\ indexers' = [indexers EXCEPT !.pc = "collect"]

\* index_file returns Ok: drop(permit)
PermitTaskOk ==
    /\ indexers.running > 0
    /\ indexers' = [indexers EXCEPT !.running = @ - 1, !.ok = @ + 1, !.permits = @ + 1]

\* A slip: the permit of a task that fails is never given back
PermitTaskErrLeaks ==
    /\ indexers.running > 0
    /\ indexers' = [indexers EXCEPT !.running = @ - 1, !.failed = @ + 1]

\* index_file returns Err: ? leaves the task's block, and the permit the
\* block owns is dropped with it
PermitTaskErr ==
    /\ indexers.running > 0
    /\ indexers' = [indexers EXCEPT !.running = @ - 1, !.failed = @ + 1, !.permits = @ + 1]

(***************************************************************************)
(* The rows of index_file and the index log under re-indexing              *)
(***************************************************************************)
\* The index_file tasks followed row by row
RowTasks == {1, 2}

\* The rows at rest, for the specifications that do not move them
IdleRows ==
    stream = [t \in RowTasks |->
                 [pc |-> "idle", records |-> <<>>, cursor |-> 0, inserter |-> <<>>]]

\* The rows a record stream yields: two rows told apart by their id
StreamRows ==
    {r \in FileRows : r.price = 1 /\ r.qty = 1 /\ r.quote_qty = 2 /\ r.time = 0
                      /\ r.is_buyer_maker}

\* What records.next() yields: a Row, or the error of a record that does not
\* deserialize
StreamItems == {Ok(r) : r \in StreamRows} \cup {Err("deserialize")}

\* file.pair of the File a task indexes
PairOf(t) == IF t = 1 THEN "BTCUSDC" ELSE "ETHUSDC"

\* Each task has opened its inserter and the record stream of its File
InitRows ==
    stream \in [RowTasks ->
                   {[pc |-> "loop", records |-> rs, cursor |-> 0, inserter |-> <<>>] :
                       rs \in SeqsUpTo(StreamItems, MaxStream)}]

\* A slip: the row goes in ahead of the rows written before it
InserterWriteAhead(t) ==
    /\ stream[t].pc = "loop"
    /\ stream[t].cursor < Len(stream[t].records)
    /\ stream[t].records[stream[t].cursor + 1].ok
    /\ stream' = [stream EXCEPT
                     ![t].cursor = @ + 1,
                     ![t].inserter =
                         <<TradesRowNew(PairOf(t), stream[t].records[stream[t].cursor + 1].val)>>
                             \o @]

\* index_file: records.next() yields Ok(row) and
\* inserter.write(&TradesRow::new(&file.pair, row)) takes it
InserterWrite(t) ==
    /\ stream[t].pc = "loop"
    /\ stream[t].cursor < Len(stream[t].records)
    /\ stream[t].records[stream[t].cursor + 1].ok
    /\ stream' = [stream EXCEPT
                     ![t].cursor = @ + 1,
                     ![t].inserter =
                         Append(@, TradesRowNew(PairOf(t),
                                                stream[t].records[stream[t].cursor + 1].val))]

\* index_file: records.next() yields Err and row? returns it
RowFails(t) ==
    /\ stream[t].pc = "loop"
    /\ stream[t].cursor < Len(stream[t].records)
    /\ ~stream[t].records[stream[t].cursor + 1].ok
    /\ stream' = [stream EXCEPT ![t].pc = "err"]

\* index_file: records.next() yields None and inserter.end() closes the
\* inserter
InserterEnd(t) ==
    /\ stream[t].pc = "loop"
    /\ stream[t].cursor = Len(stream[t].records)
    /\ stream' = [stream EXCEPT ![t].pc = "ended"]

\* The index log at rest, for the specifications that do not move it
IdleReindex ==
    /\ log_table = <<>>
    /\ log_merged = TRUE
    /\ index_runs = <<>>

\* The archives that are indexed again and again, by file name
LogFiles == {"a.zip", "b.zip"}

\* The least row id of each archive: start_id of every run over it
LeastId == [filename \in LogFiles |-> IF filename = "a.zip" THEN 5 ELSE 7]

\* The tables a TradesTable may be indexing into
LogTables == {TableName, "TRADES_ANY_USDT"}

\* Utc::now().timestamp_millis(): the wall clock, which may read anything
ClockReadings == 0..MaxClock

\* The key and version columns of the row index_file hands to index_row
KeyedLogRow(filename, table, now) ==
    [filename |-> filename, start_id |-> LeastId[filename], table |-> table,
     index_dt |-> now]

\* TRADES_INDEX_LOG exists and is empty
InitReindex ==
    /\ log_table = <<>>
    /\ log_merged = TRUE
    /\ index_runs = <<>>

\* A successful index_file run of a file into a table ends with index_row
\* inserting its row
ReindexFile(filename, table, now) ==
    /\ Len(index_runs) < MaxRuns
    /\ log_table' = Append(log_table, KeyedLogRow(filename, table, now))
    /\ index_runs' = Append(index_runs, KeyedLogRow(filename, table, now))
    /\ log_merged' = FALSE

\* ORDER BY (filename, start_id, table)
SortingKey(row) == <<row.filename, row.start_id, row.table>>

\* The members of a set of positions, in rising order
RECURSIVE Ascending(_)
Ascending(positions) ==
    IF positions = {} THEN <<>>
    ELSE LET least == CHOOSE i \in positions : \A j \in positions : i <= j
         IN  <<least>> \o Ascending(positions \ {least})

\* A slip: of the rows with one sorting key the merge keeps the one with
\* the lowest version
KeptEarliest(rows) ==
    {i \in 1..Len(rows) :
        \A j \in 1..Len(rows) :
            (j # i /\ SortingKey(rows[j]) = SortingKey(rows[i])) =>
                \/ rows[j].index_dt > rows[i].index_dt
                \/ rows[j].index_dt = rows[i].index_dt /\ j < i}

\* ENGINE = ReplacingMergeTree(index_dt): of the rows with one sorting key
\* the merge keeps the one with the highest version, the last inserted of
\* those if several have it
Kept(rows) ==
    {i \in 1..Len(rows) :
        \A j \in 1..Len(rows) :
            (j # i /\ SortingKey(rows[j]) = SortingKey(rows[i])) =>
                \/ rows[j].index_dt < rows[i].index_dt
                \/ rows[j].index_dt = rows[i].index_dt /\ j < i}

\* The table's parts are merged into one
ReplacingMerge ==
    /\ log_table # <<>>
    /\ log_table' = [k \in 1..Cardinality(Kept(log_table)) |->
                        log_table[Ascending(Kept(log_table))[k]]]
    /\ log_merged' = TRUE
    /\ UNCHANGED index_runs

\* Everything above at rest
IdleLater == IdlePool /\ IdlePermits /\ IdleRows /\ IdleReindex

(***************************************************************************)
(* index_file on one File, write by write                                  *)
(***************************************************************************)
\* The file at rest, for the specifications that do not move it
IdleBatch ==
    batch = [pc |-> "idle", n |-> 0, read |-> 0, tx |-> 0, overflowed |-> FALSE,
             commits |-> <<>>, ends |-> 0, buffered |-> 0, flushed |-> 0, logged |-> FALSE]

\* Row counts on either side of each commit point
BatchSizes ==
    {k * CommitEvery + d : k \in 0..MaxCommits, d \in {0, 1}}
    \cup {k * CommitEvery - 1 : k \in 1..MaxCommits}

\* index_file has opened the record stream of a File of n rows: tx = 0
InitBatch ==
    \E n \in BatchSizes :
        batch = [pc |-> "loop", n |-> n, read |-> 0, tx |-> 0, overflowed |-> FALSE,
                 commits |-> <<>>, ends |-> 0, buffered |-> 0, flushed |-> 0,
                 logged |-> FALSE]

\* The loop reads a row and writes it: inserter.write, tx += 1 on a u16, and
\* on tx.rem_euclid(8192) == 0 the commit branch
BatchWrite ==
    /\ batch.pc = "loop"
    /\ batch.read < batch.n
    /\ batch' = [batch EXCEPT
                    !.read = @ + 1,
                    !.buffered = @ + 1,
                    !.tx = (@ + 1) % (2 ^ U16Bits),
                    !.overflowed = @ \/ batch.tx + 1 >= 2 ^ U16Bits,
                    !.pc = IF ((batch.tx + 1) % (2 ^ U16Bits)) % CommitEvery = 0
                           THEN "commit" ELSE "loop"]

\* A slip: the counter is not set back after a commit
BatchCommitKeepsCount(elapsed) ==
    /\ batch.pc = "commit"
    /\ batch' = [batch EXCEPT
                    !.commits = Append(@, batch.read),
                    !.flushed = IF elapsed \/ batch.buffered >= InserterMaxRows
                                THEN @ + batch.buffered ELSE @,
                    !.buffered = IF elapsed \/ batch.buffered >= InserterMaxRows
                                 THEN 0 ELSE @,
                    !.pc = "loop"]

\* inserter.commit(): the rows written so far are sent when the inserter's
\* period has elapsed or its row limit is reached; then tx = 0
BatchCommit(elapsed) ==
    /\ batch.pc = "commit"
    /\ batch' = [batch EXCEPT
                    !.commits = Append(@, batch.read),
                    !.flushed = IF elapsed \/ batch.buffered >= InserterMaxRows
                                THEN @ + batch.buffered ELSE @,
                    !.buffered = IF elapsed \/ batch.buffered >= InserterMaxRows
                                 THEN 0 ELSE @,
                    !.tx = 0,
                    !.pc = "loop"]

\* row? or inserter.write(..)? returns the error: the inserter is dropped
\* with the rows it still holds
BatchFails ==
    /\ batch.pc = "loop"
    /\ batch.read < batch.n
    /\ batch' = [batch EXCEPT !.pc = "err", !.buffered = 0]

\* inserter.commit().await? returns the error
BatchCommitFails ==
    /\ batch.pc = "commit"
    /\ batch' = [batch EXCEPT !.commits = Append(@, batch.read), !.pc = "err",
                              !.buffered = 0]

\* The stream has ended: inserter.end() sends what is left
BatchEnd ==
    /\ batch.pc = "loop"
    /\ batch.read = batch.n
    /\ batch' = [batch EXCEPT !.ends = @ + 1, !.flushed = @ + batch.buffered,
                              !.buffered = 0, !.pc = "log"]

\* inserter.end() fails
BatchEndFails ==
    /\ batch.pc = "loop"
    /\ batch.read = batch.n
    /\ batch' = [batch EXCEPT !.ends = @ + 1, !.buffered = 0, !.pc = "err"]

\* index_row writes the file's index-log row; Ok(stats)
BatchIndexRow ==
    /\ batch.pc = "log"
    /\ batch' = [batch EXCEPT !.logged = TRUE, !.pc = "ok"]

\* TradesIndexLogTable::new or index_row fails
BatchIndexRowFails ==
    /\ batch.pc = "log"
    /\ batch' = [batch EXCEPT !.pc = "err"]

(***************************************************************************)
(* index() by counts: the download task, the channel and the index pool    *)
(***************************************************************************)
\* index() at rest, for the specifications that do not move it
IdlePipe ==
    pipe = [pc |-> "idle", fetch |-> "unspawned", waiting |-> 0, downloading |-> 0,
            sending |-> 0, chan |-> 0, held |-> 0, running |-> 0,
            permits |-> IndexParallelism, failed |-> FALSE]

\* index() is called on a downloader whose listing will give no File, one
\* File or enough Files to fill the pool, the buffer and a waiting send
InitPipe ==
    \E size \in {0, 1, MaxPipeline} :
        pipe = [pc |-> "start", fetch |-> "unspawned", waiting |-> size, downloading |-> 0,
                sending |-> 0, chan |-> 0, held |-> 0, running |-> 0,
                permits |-> IndexParallelism, failed |-> FALSE]

\* create() succeeds; the channel is made and the fetch task spawned
PipeCreate ==
    /\ pipe.pc = "start"
    /\ pipe' = [pipe EXCEPT !.pc = "recv", !.fetch = "listing"]

\* create() fails: index() returns the error
PipeCreateFails ==
    /\ pipe.pc = "start"
    /\ pipe' = [pipe EXCEPT !.pc = "done", !.waiting = 0]

\* The fetch task: get_pairs and get_files succeed and download begins
PipeListed ==
    /\ pipe.fetch = "listing"
    /\ pipe' = [pipe EXCEPT !.fetch = "download"]

\* The fetch task: get_pairs or get_files fails; the task ends and tx is
\* dropped
PipeListingFails ==
    /\ pipe.fetch = "listing"
    /\ pipe' = [pipe EXCEPT !.fetch = "done", !.waiting = 0]

\* for_each_concurrent starts the next File's future
PipeStart ==
    /\ pipe.fetch = "download"
    /\ pipe.waiting > 0
    /\ pipe.downloading + pipe.sending < DownloadConcurrency
    /\ pipe' = [pipe EXCEPT !.waiting = @ - 1, !.downloading = @ + 1]

\* file.download() returns Ok and the future calls tx.send(file)
PipeDownloadOk ==
    /\ pipe.downloading > 0
    /\ pipe' = [pipe EXCEPT !.downloading = @ - 1, !.sending = @ + 1]

\* file.download() returns Err: it is logged and the future ends
PipeDownloadErr ==
    /\ pipe.downloading > 0
    /\ pipe' = [pipe EXCEPT !.downloading = @ - 1]

\* The channel accepts a waiting send once its buffer has room
PipeSend ==
    /\ pipe.sending > 0
    /\ pipe.chan < ChannelCapacity
    /\ pipe' = [pipe EXCEPT !.sending = @ - 1, !.chan = @ + 1]

\* A slip: index() keeps a sender of its own, so the end of the fetch task
\* does not close the channel
PipeFetchDoneKeepsSender ==
    /\ pipe.fetch = "download"
    /\ pipe.waiting = 0
    /\ pipe.downloading = 0
    /\ pipe.sending = 0
    /\ pipe' = [pipe EXCEPT !.fetch = "ended"]

\* Every future has ended: download returns, the fetch task ends and the
\* last tx is dropped
PipeFetchDone ==
    /\ pipe.fetch = "download"
    /\ pipe.waiting = 0
    /\ pipe.downloading = 0
    /\ pipe.sending = 0
    /\ pipe' = [pipe EXCEPT !.fetch = "done"]

\* rx.recv() yields a File
PipeRecv ==
    /\ pipe.pc = "recv"
    /\ pipe.held = 0
    /\ pipe.chan > 0
    /\ pipe' = [pipe EXCEPT !.chan = @ - 1, !.held = 1]

\* acquire_owned() returns a permit and index_file(file) is spawned
PipeSpawn ==
    /\ pipe.held = 1
    /\ pipe.permits > 0
    /\ pipe' = [pipe EXCEPT !.held = 0, !.permits = @ - 1, !.running = @ + 1]

\* rx.recv() yields None: every tx is dropped and the buffer is empty
PipeRecvClosed ==
    /\ pipe.pc = "recv"
    /\ pipe.held = 0
    /\ pipe.chan = 0
    /\ pipe.fetch = "done"
    /\ pipe' = [pipe EXCEPT !.pc = "collect"]

\* An index_file task returns Ok: drop(permit)
PipeTaskOk ==
    /\ pipe.running > 0
    /\ pipe' = [pipe EXCEPT !.running = @ - 1, !.permits = @ + 1]

\* An index_file task returns Err: its permit is dropped with its block
PipeTaskErr ==
    /\ pipe.running > 0
    /\ pipe' = [pipe EXCEPT !.running = @ - 1, !.permits = @ + 1, !.failed = TRUE]

\* handle.await?? meets a task that returned Err: index() returns it
PipeReturnErr ==
    /\ pipe.pc = "collect"
    /\ pipe.failed
    /\ pipe' = [pipe EXCEPT !.pc = "done"]

\* Every handle has been awaited, which needs every task ended: Ok(())
PipeReturn ==
    /\ pipe.pc = "collect"
    /\ pipe.running = 0
    /\ ~pipe.failed
    /\ pipe' = [pipe EXCEPT !.pc = "done"]

\* The counts at rest, for the specifications that do not move them
IdleBacklog ==
    backlog = [downloading |-> 0, sending |-> 0, chan |-> 0, held |-> 0, running |-> 0]

\* index() has spawned the fetch task over a collection that has always
\* another File
InitBacklog ==
    backlog = [downloading |-> 0, sending |-> 0, chan |-> 0, held |-> 0, running |-> 0]

\* for_each_concurrent starts the next File's future
BacklogStart ==
    /\ backlog.downloading + backlog.sending < DownloadConcurrency
    /\ backlog' = [backlog EXCEPT !.downloading = @ + 1]

\* file.download() returns Ok and the future calls tx.send(file)
BacklogDownloadOk ==
    /\ backlog.downloading > 0
    /\ backlog' = [backlog EXCEPT !.downloading = @ - 1, !.sending = @ + 1]

\* file.download() returns Err
BacklogDownloadErr ==
    /\ backlog.downloading > 0
    /\ backlog' = [backlog EXCEPT !.downloading = @ - 1]

\* A slip: the channel has no bound
BacklogSendUnbounded ==
    /\ backlog.sending > 0
    /\ backlog' = [backlog EXCEPT !.sending = @ - 1, !.chan = @ + 1]

\* mpsc::channel(10): a waiting send is accepted once the buffer has room
BacklogSend ==
    /\ backlog.sending > 0
    /\ backlog.chan < ChannelCapacity
    /\ backlog' = [backlog EXCEPT !.sending = @ - 1, !.chan = @ + 1]

\* rx.recv() yields a File
BacklogRecv ==
    /\ backlog.held = 0
    /\ backlog.chan > 0
    /\ backlog' = [backlog EXCEPT !.chan = @ - 1, !.held = 1]

\* acquire_owned() returns a permit and index_file(file) is spawned
BacklogSpawn ==
    /\ backlog.held = 1
    /\ backlog.running < IndexParallelism
    /\ backlog' = [backlog EXCEPT !.held = 0, !.running = @ + 1]

\* An index_file task ends, with Ok or Err, and its permit is dropped
BacklogTaskEnds ==
    /\ backlog.running > 0
    /\ backlog' = [backlog EXCEPT !.running = @ - 1]

\* Everything of this part at rest
IdleLast == IdleBatch /\ IdlePipe /\ IdleBacklog

(***************************************************************************)
(* The specifications                                                      *)
(***************************************************************************)
NextPairs ==
    \/ \E v \in FilterVecs : WithPairExcluded(v) /\ UNCHANGED <<varsDownload, varsIndex, varsFn, varsLater, varsLast>>
    \/ \E v \in FilterVecs : WithPairStartsWith(v) /\ UNCHANGED <<varsDownload, varsIndex, varsFn, varsLater, varsLast>>
    \/ \E v \in FilterVecs : WithPairEndsWith(v) /\ UNCHANGED <<varsDownload, varsIndex, varsFn, varsLater, varsLast>>
    \/ \E listing \in SeqsUpTo(PairNames, MaxListing) : GetPairs(listing) /\ UNCHANGED <<varsDownload, varsIndex, varsFn, varsLater, varsLast>>
    \/ GetPairsListFails /\ UNCHANGED <<varsDownload, varsIndex, varsFn, varsLater, varsLast>>

StartPairs == InitPairs /\ IdleDownload /\ InitIndex /\ IdleFn /\ IdleLater /\ IdleLast

SpecPairs == StartPairs /\ [][NextPairs]_vars

NextDownload ==
    \/ \E t \in CallIds, p \in Paths : Download(t, p) /\ UNCHANGED <<varsPairs, varsIndex, varsFn, varsLater, varsLast>>
    \/ \E t \in CallIds : CreateNew(t) /\ UNCHANGED <<varsPairs, varsIndex, varsFn, varsLater, varsLast>>
    \/ \E t \in CallIds : StreamObject(t) /\ UNCHANGED <<varsPairs, varsIndex, varsFn, varsLater, varsLast>>
    \/ \E t \in CallIds : StreamFails(t) /\ UNCHANGED <<varsPairs, varsIndex, varsFn, varsLater, varsLast>>
    \/ \E t \in CallIds : ChecksumMatches(t) /\ UNCHANGED <<varsPairs, varsIndex, varsFn, varsLater, varsLast>>
    \/ \E t \in CallIds : ChecksumReadFails(t) /\ UNCHANGED <<varsPairs, varsIndex, varsFn, varsLater, varsLast>>
    \/ \E t \in CallIds : RemoveFile(t) /\ UNCHANGED <<varsPairs, varsIndex, varsFn, varsLater, varsLast>>

StartDownload == InitDownload /\ InitPairs /\ InitIndex /\ IdleFn /\ IdleLater /\ IdleLast

SpecDownload == StartDownload /\ [][NextDownload]_vars

\* Each behaviour applies one function once
NextFn ==
    \/ /\ applied.fn = "none"
       /\ \E objects \in SeqsUpTo(ObjectKeys, MaxObjects) :
             CallFromObjects("ANYUSDC", objects, ChecksumSuffix, ConfigDataDir)
       /\ UNCHANGED <<varsPairs, varsDownload, varsIndex, varsLater, varsLast>>
    \/ /\ applied.fn = "none"
       /\ \E rest \in KeyRests, dir \in DataDirs \cup {UnsetDataDir} :
             CallFileNew("ANYUSDC", <<"data", "/">> \o rest,
                         <<"data", "/">> \o rest \o ChecksumSuffix, dir)
       /\ UNCHANGED <<varsPairs, varsDownload, varsIndex, varsLater, varsLast>>
    \/ /\ applied.fn = "none"
       /\ \E asset \in Assets, cadence \in Cadences, data_type \in DataTypes, bucket_ok \in BOOLEAN :
             CallDownloaderNew("binance", asset, cadence, data_type, bucket_ok)
       /\ UNCHANGED <<varsPairs, varsDownload, varsIndex, varsLater, varsLast>>
    \/ /\ applied.fn = "none"
       /\ \E hex \in {FormatUpperHex(Sha256("b1")), FormatLowerHex(Sha256("b1"))},
             tail \in ChecksumTails, content \in Contents :
             CallChecksumMatches(hex \o tail, content)
       /\ UNCHANGED <<varsPairs, varsDownload, varsIndex, varsLater, varsLast>>
    \/ /\ applied.fn = "none"
       /\ \E is_buyer_maker \in BoolTexts, is_best_match \in BoolTexts :
             CallDeserializeRow([id |-> 1, price |-> 2, qty |-> 3, quote_qty |-> 6, time |-> 7,
                                 is_buyer_maker |-> is_buyer_maker,
                                 is_best_match |-> is_best_match])
       /\ UNCHANGED <<varsPairs, varsDownload, varsIndex, varsLater, varsLast>>
    \/ /\ applied.fn = "none"
       /\ \E pair \in {"BTCUSDC", "ETHUSDC"}, row \in FileRows : CallTradesRowNew(pair, row)
       /\ UNCHANGED <<varsPairs, varsDownload, varsIndex, varsLater, varsLast>>
    \/ /\ applied.fn = "none"
       /\ \E lhs, rhs \in [bytes : QuantityValues, rows : QuantityValues,
                            transactions : QuantityValues],
             overflow_checks \in BOOLEAN :
             CallAddAssign(lhs, rhs, overflow_checks)
       /\ UNCHANGED <<varsPairs, varsDownload, varsIndex, varsLater, varsLast>>
    \/ /\ applied.fn = "none"
       /\ \E a, b, c \in MonoidOperands, overflow_checks \in BOOLEAN :
             CallAddAssignLaws(a, b, c, overflow_checks)
       /\ UNCHANGED <<varsPairs, varsDownload, varsIndex, varsLater, varsLast>>
    \/ /\ applied.fn = "none"
       /\ \E pairs_known \in BOOLEAN, get_pairs_ok \in BOOLEAN,
             outcomes \in SeqsUpTo(PairOutcomes, MaxPairs) :
             CallGetFiles(pairs_known, get_pairs_ok, outcomes)
       /\ UNCHANGED <<varsPairs, varsDownload, varsIndex, varsLater, varsLast>>
    \/ /\ applied.fn = "none"
       /\ \E type \in DOMAIN VariantNames : \E variant \in VariantNames[type] :
             CallAsStr(type, variant)
       /\ UNCHANGED <<varsPairs, varsDownload, varsIndex, varsLater, varsLast>>
    \/ /\ applied.fn = "none"
       /\ \E database \in DatabaseNames, name \in TableNames :
             CallIndexRowNames(database, name)
       /\ UNCHANGED <<varsPairs, varsDownload, varsIndex, varsLater, varsLast>>

StartFn == IdleFn /\ InitPairs /\ IdleDownload /\ InitIndex /\ IdleLater /\ IdleLast

SpecFn == StartFn /\ [][NextFn]_vars

Next ==
    \/ IndexCreate /\ UNCHANGED <<varsPairs, varsDownload, varsFn, varsLater, varsLast>>
    \/ IndexCreateFails /\ UNCHANGED <<varsPairs, varsDownload, varsFn, varsLater, varsLast>>
    \/ FetchGetPairs /\ UNCHANGED <<varsPairs, varsDownload, varsFn, varsLater, varsLast>>
    \/ FetchGetPairsFails /\ UNCHANGED <<varsPairs, varsDownload, varsFn, varsLater, varsLast>>
    \/ \E n \in 0..MaxFiles : FetchGetFiles(n) /\ UNCHANGED <<varsPairs, varsDownload, varsFn, varsLater, varsLast>>
    \/ FetchGetFilesFails /\ UNCHANGED <<varsPairs, varsDownload, varsFn, varsLater, varsLast>>
    \/ \E f \in FileIds : DownloadStart(f) /\ UNCHANGED <<varsPairs, varsDownload, varsFn, varsLater, varsLast>>
    \/ \E f \in FileIds : DownloadOk(f) /\ UNCHANGED <<varsPairs, varsDownload, varsFn, varsLater, varsLast>>
    \/ \E f \in FileIds : DownloadFails(f) /\ UNCHANGED <<varsPairs, varsDownload, varsFn, varsLater, varsLast>>
    \/ Send /\ UNCHANGED <<varsPairs, varsDownload, varsFn, varsLater, varsLast>>
    \/ FetchDone /\ UNCHANGED <<varsPairs, varsDownload, varsFn, varsLater, varsLast>>
    \/ Recv /\ UNCHANGED <<varsPairs, varsDownload, varsFn, varsLater, varsLast>>
    \/ RecvClosed /\ UNCHANGED <<varsPairs, varsDownload, varsFn, varsLater, varsLast>>
    \/ Spawn /\ UNCHANGED <<varsPairs, varsDownload, varsFn, varsLater, varsLast>>
    \/ \E f \in FileIds, entries \in EntryCounts :
          IndexRecords(f, entries) /\ UNCHANGED <<varsPairs, varsDownload, varsFn, varsLater, varsLast>>
    \/ \E f \in FileIds, entries \in EntryCounts :
          IndexRecordsFails(f, entries) /\ UNCHANGED <<varsPairs, varsDownload, varsFn, varsLater, varsLast>>
    \/ \E f \in FileIds, n \in RowCounts, held_back \in BOOLEAN :
          IndexStream(f, n, held_back) /\ UNCHANGED <<varsPairs, varsDownload, varsFn, varsLater, varsLast>>
    \/ \E f \in FileIds, k \in 0..1 : IndexStreamFails(f, k) /\ UNCHANGED <<varsPairs, varsDownload, varsFn, varsLater, varsLast>>
    \/ \E f \in FileIds : IndexEnd(f) /\ UNCHANGED <<varsPairs, varsDownload, varsFn, varsLater, varsLast>>
    \/ \E f \in FileIds : IndexEndFails(f) /\ UNCHANGED <<varsPairs, varsDownload, varsFn, varsLater, varsLast>>
    \/ \E f \in FileIds : IndexRow(f) /\ UNCHANGED <<varsPairs, varsDownload, varsFn, varsLater, varsLast>>
    \/ \E f \in FileIds : IndexRowFails(f) /\ UNCHANGED <<varsPairs, varsDownload, varsFn, varsLater, varsLast>>
    \/ Collect /\ UNCHANGED <<varsPairs, varsDownload, varsFn, varsLater, varsLast>>
    \/ CollectErr /\ UNCHANGED <<varsPairs, varsDownload, varsFn, varsLater, varsLast>>
    \/ CollectDone /\ UNCHANGED <<varsPairs, varsDownload, varsFn, varsLater, varsLast>>

Init == InitIndex /\ InitPairs /\ IdleDownload /\ IdleFn /\ IdleLater /\ IdleLast

Spec == Init /\ [][Next]_vars

NextPool ==
    \/ PoolStart /\ UNCHANGED <<varsPairs, varsDownload, varsIndex, varsFn, varsPermits, varsRows, varsReindex, varsLast>>
    \/ PoolDownloadOk /\ UNCHANGED <<varsPairs, varsDownload, varsIndex, varsFn, varsPermits, varsRows, varsReindex, varsLast>>
    \/ PoolDownloadErr /\ UNCHANGED <<varsPairs, varsDownload, varsIndex, varsFn, varsPermits, varsRows, varsReindex, varsLast>>
    \/ PoolSend /\ UNCHANGED <<varsPairs, varsDownload, varsIndex, varsFn, varsPermits, varsRows, varsReindex, varsLast>>
    \/ PoolReturn /\ UNCHANGED <<varsPairs, varsDownload, varsIndex, varsFn, varsPermits, varsRows, varsReindex, varsLast>>

StartPool ==
    InitPool /\ InitPairs /\ IdleDownload /\ InitIndex /\ IdleFn /\ IdlePermits /\ IdleRows /\ IdleReindex /\ IdleLast

SpecPool == StartPool /\ [][NextPool]_vars

NextPermits ==
    \/ PermitRecv /\ UNCHANGED <<varsPairs, varsDownload, varsIndex, varsFn, varsPool, varsRows, varsReindex, varsLast>>
    \/ PermitSpawn /\ UNCHANGED <<varsPairs, varsDownload, varsIndex, varsFn, varsPool, varsRows, varsReindex, varsLast>>
    \/ PermitRecvClosed /\ UNCHANGED <<varsPairs, varsDownload, varsIndex, varsFn, varsPool, varsRows, varsReindex, varsLast>>
    \/ PermitTaskOk /\ UNCHANGED <<varsPairs, varsDownload, varsIndex, varsFn, varsPool, varsRows, varsReindex, varsLast>>
    \/ PermitTaskErr /\ UNCHANGED <<varsPairs, varsDownload, varsIndex, varsFn, varsPool, varsRows, varsReindex, varsLast>>

StartPermits ==
    InitPermits /\ InitPairs /\ IdleDownload /\ InitIndex /\ IdleFn /\ IdlePool /\ IdleRows /\ IdleReindex /\ IdleLast

SpecPermits == StartPermits /\ [][NextPermits]_vars

NextRows ==
    \/ \E t \in RowTasks : InserterWrite(t) /\ UNCHANGED <<varsPairs, varsDownload, varsIndex, varsFn, varsPool, varsPermits, varsReindex, varsLast>>
    \/ \E t \in RowTasks : RowFails(t) /\ UNCHANGED <<varsPairs, varsDownload, varsIndex, varsFn, varsPool, varsPermits, varsReindex, varsLast>>
    \/ \E t \in RowTasks : InserterEnd(t) /\ UNCHANGED <<varsPairs, varsDownload, varsIndex, varsFn, varsPool, varsPermits, varsReindex, varsLast>>

StartRows ==
    InitRows /\ InitPairs /\ IdleDownload /\ InitIndex /\ IdleFn /\ IdlePool /\ IdlePermits /\ IdleReindex /\ IdleLast

SpecRows == StartRows /\ [][NextRows]_vars

NextReindex ==
    \/ \E filename \in LogFiles, table \in LogTables, now \in ClockReadings :
          ReindexFile(filename, table, now) /\ UNCHANGED <<varsPairs, varsDownload, varsIndex, varsFn, varsPool, varsPermits, varsRows, varsLast>>
    \/ ReplacingMerge /\ UNCHANGED <<varsPairs, varsDownload, varsIndex, varsFn, varsPool, varsPermits, varsRows, varsLast>>

StartReindex ==
    InitReindex /\ InitPairs /\ IdleDownload /\ InitIndex /\ IdleFn /\ IdlePool /\ IdlePermits /\ IdleRows /\ IdleLast

SpecReindex == StartReindex /\ [][NextReindex]_vars

NextBatch ==
    \/ BatchWrite /\ UNCHANGED <<varsPairs, varsDownload, varsIndex, varsFn, varsLater, varsPipe, varsBacklog>>
    \/ \E elapsed \in BOOLEAN :
          BatchCommit(elapsed) /\ UNCHANGED <<varsPairs, varsDownload, varsIndex, varsFn, varsLater, varsPipe, varsBacklog>>
    \/ BatchFails /\ UNCHANGED <<varsPairs, varsDownload, varsIndex, varsFn, varsLater, varsPipe, varsBacklog>>
    \/ BatchCommitFails /\ UNCHANGED <<varsPairs, varsDownload, varsIndex, varsFn, varsLater, varsPipe, varsBacklog>>
    \/ BatchEnd /\ UNCHANGED <<varsPairs, varsDownload, varsIndex, varsFn, varsLater, varsPipe, varsBacklog>>
    \/ BatchEndFails /\ UNCHANGED <<varsPairs, varsDownload, varsIndex, varsFn, varsLater, varsPipe, varsBacklog>>
    \/ BatchIndexRow /\ UNCHANGED <<varsPairs, varsDownload, varsIndex, varsFn, varsLater, varsPipe, varsBacklog>>
    \/ BatchIndexRowFails /\ UNCHANGED <<varsPairs, varsDownload, varsIndex, varsFn, varsLater, varsPipe, varsBacklog>>

StartBatch ==
    InitBatch /\ InitPairs /\ IdleDownload /\ InitIndex /\ IdleFn /\ IdleLater /\ IdlePipe /\ IdleBacklog

SpecBatch == StartBatch /\ [][NextBatch]_vars

NextPipeline ==
    \/ PipeCreate /\ UNCHANGED <<varsPairs, varsDownload, varsIndex, varsFn, varsLater, varsBatch, varsBacklog>>
    \/ PipeCreateFails /\ UNCHANGED <<varsPairs, varsDownload, varsIndex, varsFn, varsLater, varsBatch, varsBacklog>>
    \/ PipeListed /\ UNCHANGED <<varsPairs, varsDownload, varsIndex, varsFn, varsLater, varsBatch, varsBacklog>>
    \/ PipeListingFails /\ UNCHANGED <<varsPairs, varsDownload, varsIndex, varsFn, varsLater, varsBatch, varsBacklog>>
    \/ PipeStart /\ UNCHANGED <<varsPairs, varsDownload, varsIndex, varsFn, varsLater, varsBatch, varsBacklog>>
    \/ PipeDownloadOk /\ UNCHANGED <<varsPairs, varsDownload, varsIndex, varsFn, varsLater, varsBatch, varsBacklog>>
    \/ PipeDownloadErr /\ UNCHANGED <<varsPairs, varsDownload, varsIndex, varsFn, varsLater, varsBatch, varsBacklog>>
    \/ PipeSend /\ UNCHANGED <<varsPairs, varsDownload, varsIndex, varsFn, varsLater, varsBatch, varsBacklog>>
    \/ PipeFetchDone /\ UNCHANGED <<varsPairs, varsDownload, varsIndex, varsFn, varsLater, varsBatch, varsBacklog>>
    \/ PipeRecv /\ UNCHANGED <<varsPairs, varsDownload, varsIndex, varsFn, varsLater, varsBatch, varsBacklog>>
    \/ PipeSpawn /\ UNCHANGED <<varsPairs, varsDownload, varsIndex, varsFn, varsLater, varsBatch, varsBacklog>>
    \/ PipeRecvClosed /\ UNCHANGED <<varsPairs, varsDownload, varsIndex, varsFn, varsLater, varsBatch, varsBacklog>>
    \/ PipeTaskOk /\ UNCHANGED <<varsPairs, varsDownload, varsIndex, varsFn, varsLater, varsBatch, varsBacklog>>
    \/ PipeTaskErr /\ UNCHANGED <<varsPairs, varsDownload, varsIndex, varsFn, varsLater, varsBatch, varsBacklog>>
    \/ PipeReturnErr /\ UNCHANGED <<varsPairs, varsDownload, varsIndex, varsFn, varsLater, varsBatch, varsBacklog>>
    \/ PipeReturn /\ UNCHANGED <<varsPairs, varsDownload, varsIndex, varsFn, varsLater, varsBatch, varsBacklog>>

StartPipeline ==
    InitPipe /\ InitPairs /\ IdleDownload /\ InitIndex /\ IdleFn /\ IdleLater /\ IdleBatch /\ IdleBacklog

SpecPipeline == StartPipeline /\ [][NextPipeline]_vars

\* The scheduler lets no step that stays possible wait for ever
SpecPipelineFair == StartPipeline /\ [][NextPipeline]_vars /\ WF_vars(NextPipeline)

NextBacklog ==
    \/ BacklogStart /\ UNCHANGED <<varsPairs, varsDownload, varsIndex, varsFn, varsLater, varsBatch, varsPipe>>
    \/ BacklogDownloadOk /\ UNCHANGED <<varsPairs, varsDownload, varsIndex, varsFn, varsLater, varsBatch, varsPipe>>
    \/ BacklogDownloadErr /\ UNCHANGED <<varsPairs, varsDownload, varsIndex, varsFn, varsLater, varsBatch, varsPipe>>
    \/ BacklogSend /\ UNCHANGED <<varsPairs, varsDownload, varsIndex, varsFn, varsLater, varsBatch, varsPipe>>
    \/ BacklogRecv /\ UNCHANGED <<varsPairs, varsDownload, varsIndex, varsFn, varsLater, varsBatch, varsPipe>>
    \/ BacklogSpawn /\ UNCHANGED <<varsPairs, varsDownload, varsIndex, varsFn, varsLater, varsBatch, varsPipe>>
    \/ BacklogTaskEnds /\ UNCHANGED <<varsPairs, varsDownload, varsIndex, varsFn, varsLater, varsBatch, varsPipe>>

StartBacklog ==
    InitBacklog /\ InitPairs /\ IdleDownload /\ InitIndex /\ IdleFn /\ IdleLater /\ IdleBatch /\ IdlePipe

SpecBacklog == StartBacklog /\ [][NextBacklog]_vars

(***************************************************************************)
(* The filter claims, stated on the listing and the filters alone          *)
(***************************************************************************)
ExcludedHit(name) ==
    /\ IsSome(pair_filter_excluded)
    /\ \E i \in 1..Len(Unwrap(pair_filter_excluded)) :
          Contains(name, Unwrap(pair_filter_excluded)[i])

PrefixHit(name) ==
    /\ IsSome(pair_filter_starts_with)
    /\ \E i \in 1..Len(Unwrap(pair_filter_starts_with)) :
          StartsWith(name, Unwrap(pair_filter_starts_with)[i])

SuffixHit(name) ==
    /\ IsSome(pair_filter_ends_with)
    /\ \E i \in 1..Len(Unwrap(pair_filter_ends_with)) :
          EndsWith(name, Unwrap(pair_filter_ends_with)[i])

NotExcluded(name) == ~ExcludedHit(name)

PositivelyAccepted(name) == ~ExcludedHit(name) /\ (PrefixHit(name) \/ SuffixHit(name))

\* C1: with neither starts_with nor ends_with supplied, get_pairs keeps
\* every listed pair that the excluded filter does not reject (all of them
\* when there is no filter at all).
C1_NoPositiveFilterKeepsAll ==
    (get_pairs_result = "ok" /\ pair_filter_starts_with = None /\ pair_filter_ends_with = None)
        => pairs = Some(SelectSeq(listed, NotExcluded))

\* C2: exclusion takes precedence: no kept pair contains an excluded entry,
\* whatever it matches, and every kept pair was listed.
C2_ExclusionPrecedence ==
    get_pairs_result = "ok" =>
        /\ IsSome(pairs)
        /\ \A i \in 1..Len(Unwrap(pairs)) :
              /\ ~ExcludedHit(Unwrap(pairs)[i])
              /\ \E j \in 1..Len(listed) : listed[j] = Unwrap(pairs)[i]

\* C2's case: a listed name hits the excluded filter and an ends_with entry
\* and is dropped, while a sibling is kept (S3).
C2_Witness ==
    /\ get_pairs_result = "ok"
    /\ \E i \in 1..Len(listed) : ExcludedHit(listed[i]) /\ SuffixHit(listed[i])
    /\ Len(Unwrap(pairs)) = 1

\* C3: with a positive filter supplied, the kept pairs are exactly the
\* listed names, in order, that are not excluded and that a starts_with
\* entry prefixes or an ends_with entry suffixes.
C3_PositiveFilterIff ==
    (get_pairs_result = "ok" /\ (IsSome(pair_filter_starts_with) \/ IsSome(pair_filter_ends_with)))
        => pairs = Some(SelectSeq(listed, PositivelyAccepted))

\* C3's case: under a positive filter one listed name is kept by its suffix
\* and another, not excluded, matches nothing and is dropped.
C3_Witness ==
    /\ get_pairs_result = "ok"
    /\ IsSome(pair_filter_ends_with)
    /\ \E i, j \in 1..Len(listed) :
          /\ SuffixHit(listed[i]) /\ ~PrefixHit(listed[i]) /\ ~ExcludedHit(listed[i])
          /\ ~SuffixHit(listed[j]) /\ ~PrefixHit(listed[j]) /\ ~ExcludedHit(listed[j])
    /\ Len(Unwrap(pairs)) = 1

(***************************************************************************)
(* File.download: checksum round trip and idempotence                      *)
(***************************************************************************)
\* The hex SHA-256 of content is the checksum object's token, in upper or
\* in lower case
DigestIsToken(content, body) ==
    SplitSpaceFirst(body) \in {FormatUpperHex(Sha256(content)), FormatLowerHex(Sha256(content))}

\* C8: a download of a file that was not on disk, once it has fetched the
\* archive and read the checksum object, returns Ok with the fetched body on
\* disk when the body's SHA-256 is the token, and otherwise returns the
\* checksum error with nothing at path.
C8_ChecksumRoundTrip ==
    \A t \in CallIds :
        (/\ calls[t].pc = "done"
         /\ ~calls[t].on_disk_before
         /\ calls[t].fetched # "none"
         /\ calls[t].checksum_read)
        => IF DigestIsToken(calls[t].fetched, checksum_body[calls[t].path])
           THEN calls[t].result = "ok" /\ calls[t].at_return = calls[t].fetched
           ELSE calls[t].result = "checksum_mismatch" /\ calls[t].at_return = "absent"

\* C8's case: one call fetched a body whose digest is the token, written in
\* the other letter case, and kept it; another fetched a flipped body and
\* removed it.
C8_Witness ==
    \E t, u \in CallIds :
        /\ calls[t].pc = "done" /\ ~calls[t].on_disk_before /\ calls[t].result = "ok"
        /\ calls[t].fetched = "b1" /\ disk[calls[t].path] = "b1"
        /\ SplitSpaceFirst(checksum_body[calls[t].path]) = FormatLowerHex(Sha256("b1"))
        /\ calls[u].pc = "done" /\ calls[u].result = "checksum_mismatch"
        /\ calls[u].fetched = "b2" /\ disk[calls[u].path] = "absent"

\* C9: download on a path that exists returns Ok with no bucket GET and the
\* file as it was; so does every call made after the path's first call has
\* returned Ok, which finds the file that call left.
C9_IdempotentDownload ==
    \A t \in CallIds :
        calls[t].pc = "done" =>
            /\ calls[t].on_disk_before =>
                  /\ calls[t].result = "ok"
                  /\ calls[t].gets = 0
                  /\ calls[t].at_return = calls[t].at_call
            /\ calls[t].after_first_ok =>
                  /\ calls[t].result = "ok"
                  /\ calls[t].gets = 0
                  /\ calls[t].at_return = calls[first_call[calls[t].path]].at_return
                  /\ disk[calls[t].path] = calls[t].at_return

\* C9's case: the first call fetched and verified the archive with two GETs,
\* and a second call of the same File has returned.
C9_Witness ==
    \E t, u \in CallIds :
        /\ t # u
        /\ calls[t].path = calls[u].path
        /\ first_call[calls[t].path] = t
        /\ calls[t].pc = "done" /\ calls[t].result = "ok" /\ calls[t].gets = 2
        /\ calls[u].pc = "done" /\ calls[u].after_first_ok

(***************************************************************************)
(* TradesTable.index: what it returns, the download stream, provenance     *)
(***************************************************************************)
Dispatched == {f \in FileIds : task[f].pc # "none"}

IndexedOk == {f \in FileIds : task[f].pc = "ok"}

IndexFailed == {f \in FileIds : task[f].pc = "err"}

\* The positions in the index log of the rows for file f and the table
LogRowsOf(f) ==
    {i \in 1..Len(index_log) : index_log[i].filename = f /\ index_log[i].table = TableName}

\* C4: a listing failure is fatal: when get_pairs or get_files has failed,
\* index() returns an error.
C4_ListingFailureIsFatal ==
    (main.pc = "done" /\ fetch.result = "err") => main.result = "err"

\* C5: index() returns Ok exactly when at least one file was indexed without
\* error and nothing fatal (table creation, listing) failed.
C5_SuccessIffSomeFileIndexed ==
    main.pc = "done" =>
        (main.result = "ok" <=>
            (IndexedOk # {} /\ fetch.pc # "unspawned" /\ fetch.result # "err"))

\* C6: a failing index_file aborts only its own file: when index() returns,
\* every dispatched task has run to its end and every file indexed without
\* error has been counted.
C6_FailureLeavesSiblings ==
    (main.pc = "done" /\ IndexFailed # {}) =>
        /\ \A f \in Dispatched : task[f].pc \in {"ok", "err"}
        /\ main.file_count = Cardinality(IndexedOk)

\* C7: the stream emits the Files whose download returned Ok, each once, in
\* the order in which the downloads completed; a failed download is not
\* emitted, and when the stream ends every File of the collection has been
\* downloaded or has failed, and every success has been emitted.
C7_DownloadStream ==
    /\ Len(emitted) <= Len(completed)
    /\ SubSeq(completed, 1, Len(emitted)) = emitted
    /\ \A i, j \in 1..Len(completed) : completed[i] = completed[j] => i = j
    /\ \A f \in FileIds :
          /\ (\E i \in 1..Len(completed) : completed[i] = f) <=> dl[f] \in {"sending", "sent"}
          /\ (\E i \in 1..Len(emitted) : emitted[i] = f) <=> dl[f] = "sent"
    /\ (fetch.pc = "done" /\ fetch.collected) =>
          /\ \A f \in 1..fetch.nfiles : dl[f] \in {"sent", "failed"}
          /\ emitted = completed

\* C7's case: the stream has ended, the first File's download failed and a
\* sibling was emitted.
C7_Witness ==
    /\ fetch.pc = "done"
    /\ fetch.collected
    /\ dl[1] = "failed"
    /\ \E f \in FileIds : dl[f] = "sent"

\* C10: after index() returns Ok, every file indexed without error has exactly
\* one index-log row for its name and the table, whose num_rows is the number
\* of rows written to the inserter for it.
C10_ProvenanceComplete ==
    (main.pc = "done" /\ main.result = "ok") =>
        \A f \in IndexedOk :
            /\ Cardinality(LogRowsOf(f)) = 1
            /\ \A i \in LogRowsOf(f) :
                  index_log[i].num_rows \o <<0, 0>> = task[f].written

(***************************************************************************)
(* Constructors and pure functions: the claims                             *)
(***************************************************************************)
\* The keys of a listing, the archives and the checksums among them
KeysOf(objects) == {objects[i] : i \in 1..Len(objects)}

ArchiveKeys(objects, suffix) == {k \in KeysOf(objects) : ~EndsWith(k, suffix)}

ChecksumKeys(objects, suffix) == {k \in KeysOf(objects) : EndsWith(k, suffix)}

\* Every archive has its checksum in the listing and every checksum its archive
FullyPaired(objects, suffix) ==
    /\ \A a \in ArchiveKeys(objects, suffix) : a \o suffix \in KeysOf(objects)
    /\ \A c \in ChecksumKeys(objects, suffix) :
          SubSeq(c, 1, Len(c) - Len(suffix)) \in ArchiveKeys(objects, suffix)

\* C11: from_objects on a fully paired listing returns one File per archive
\* key k, with object_key = k and checksum_key = k + suffix; on a listing
\* with an archive or a checksum lacking its partner it fails.
C11_FromObjectsPairs ==
    returned.fn = "from_objects" =>
        IF FullyPaired(applied.objects, applied.checksum_suffix)
        THEN /\ returned.res.ok
             /\ Len(returned.res.val)
                  = Cardinality(ArchiveKeys(applied.objects, applied.checksum_suffix))
             /\ \A a \in ArchiveKeys(applied.objects, applied.checksum_suffix) :
                   \E i \in 1..Len(returned.res.val) :
                       /\ returned.res.val[i].object_key = a
                       /\ returned.res.val[i].checksum_key = a \o applied.checksum_suffix
        ELSE ~returned.res.ok

\* C11's case: a listing of two archives and their two checksums has
\* produced a collection of two Files.
C11_Witness ==
    /\ returned.fn = "from_objects"
    /\ Len(applied.objects) = 4
    /\ returned.res.ok
    /\ Len(returned.res.val) = 2

\* A result that is an error value handed back to the caller
IsErrValue(res) == ~res.ok /\ "err" \in DOMAIN res

\* C12: Downloader::new with the asset futures or option returns a "not
\* implemented" error value to the caller.
C12_UnsupportedAssetReturnsError ==
    (returned.fn = "Downloader::new" /\ applied.asset # "spot") =>
        IsErrValue(returned.res)

\* C13: Downloader::new rejects every data type other than trades with an
\* error; a Downloader is produced only for (spot, any cadence, trades).
C13_OnlyTradesConstructed ==
    returned.fn = "Downloader::new" =>
        /\ (applied.asset = "spot" /\ applied.data_type # "trades") => IsErrValue(returned.res)
        /\ returned.res.ok => (applied.asset = "spot" /\ applied.data_type = "trades")

\* What follows the leading data/ of a key
RestOf(object_key) == SubSeq(object_key, 3, Len(object_key))

\* C14: for every key data/<rest>, File::new derives the path
\* <data.dir>/binance/<rest>: data.dir without its trailing slashes (and with
\* a leading ~ expanded), then binance/ in place of the leading data/ only,
\* then <rest> as it is.
C14_PathDerivation ==
    (returned.fn = "File::new" /\ IsSome(ShellExpand(applied.dir))) =>
        /\ returned.res.ok
        /\ returned.res.val.path =
              Unwrap(ShellExpand(TrimEndMatches(applied.dir, "/")))
                  \o <<"/", "binance", "/">> \o RestOf(applied.object_key)

\* The first whitespace-separated token of a text that does not begin with
\* whitespace
RECURSIVE FirstToken(_)
FirstToken(s) ==
    IF s = <<>> \/ Head(s) \in {" ", "\t", "\n", "\r"} THEN <<>>
    ELSE <<Head(s)>> \o FirstToken(Tail(s))

\* C15: the checksum matches exactly when the first whitespace-separated
\* token of the checksum object, whatever whitespace follows it, is the hex
\* SHA-256 of the local file in any letter case.
C15_FirstTokenAnyWhitespace ==
    returned.fn = "checksum_matches" =>
        (returned.res.val <=>
            EqIgnoreAsciiCase(FirstToken(applied.body), FormatUpperHex(Sha256(applied.content))))

\* The four literals and the value each stands for
TruthyTexts == {"true", "True"}

FalseyTexts == {"false", "False"}

\* C16: a source row parses exactly when is_buyer_maker and is_best_match
\* are each one of true, True, false, False, and then each field is true for
\* the first two and false for the last two; any other text in either column
\* is a parse error for the row.
C16_BooleanLiterals ==
    returned.fn = "Row::deserialize" =>
        IF /\ applied.record.is_buyer_maker \in TruthyTexts \cup FalseyTexts
           /\ applied.record.is_best_match \in TruthyTexts \cup FalseyTexts
        THEN /\ returned.res.ok
             /\ returned.res.val.is_buyer_maker = (applied.record.is_buyer_maker \in TruthyTexts)
             /\ returned.res.val.is_best_match = (applied.record.is_best_match \in TruthyTexts)
        ELSE ~returned.res.ok

\* C17: the database row of a source row has side = NOT is_buyer_maker,
\* notional = quote_qty, pair = the File's pair, and dt, id, price, qty equal
\* to the source row's time, id, price, qty.
C17_RowMapping ==
    returned.fn = "TradesRow::new" =>
        /\ returned.res.val.side = ~applied.row.is_buyer_maker
        /\ returned.res.val.notional = applied.row.quote_qty
        /\ returned.res.val.pair = applied.pair
        /\ returned.res.val.dt = applied.row.time
        /\ returned.res.val.id = applied.row.id
        /\ returned.res.val.price = applied.row.price
        /\ returned.res.val.qty = applied.row.qty

\* C17's case: a row whose buyer is the maker has been mapped to a short
\* trade whose notional differs from its price and its quantity.
C17_Witness ==
    /\ returned.fn = "TradesRow::new"
    /\ applied.row.is_buyer_maker
    /\ ~returned.res.val.side
    /\ returned.res.val.notional = 5
    /\ returned.res.val.price = 1
    /\ returned.res.val.qty = 3

\* Saturating addition on u64
SaturatingAdd(a, b) == IF OverflowsU64(a, b) THEN U64Max ELSE AddLimbs(a, b, 0)

\* C20: the accumulator adds bytes, rows and transactions with saturating
\* addition: a sum that does not fit in 64 bits is u64::MAX, and the addition
\* neither wraps nor aborts.
C20_SaturatingAccumulator ==
    returned.fn = "add_assign" =>
        /\ returned.res.ok
        /\ returned.res.val.bytes = SaturatingAdd(applied.lhs.bytes, applied.rhs.bytes)
        /\ returned.res.val.rows = SaturatingAdd(applied.lhs.rows, applied.rhs.rows)
        /\ returned.res.val.transactions
              = SaturatingAdd(applied.lhs.transactions, applied.rhs.transactions)

(***************************************************************************)
(* index_file: malformed archives and files without rows                   *)
(***************************************************************************)
\* C18: when records() has found an entry count other than one, index_file
\* has failed for the file, the archive is still on disk, no row of it was
\* written to the trades table and the index log has no row for it.
C18_MalformedArchive ==
    \A f \in FileIds :
        (task[f].entries # -1 /\ task[f].entries # 1) =>
            /\ task[f].pc = "err"
            /\ task[f].on_disk
            /\ task[f].written = U64(0)
            /\ \A i \in 1..Len(index_log) : index_log[i].filename # f

\* C18's case: one archive had two entries and its task failed, while a
\* sibling archive with one entry was indexed and logged.
C18_Witness ==
    \E f, g \in FileIds :
        /\ task[f].entries = 2
        /\ task[f].pc = "err"
        /\ task[g].pc = "ok"
        /\ LogRowsOf(g) # {}

\* The task has logged something above the level of its routine messages
AnomalyLogged(f) ==
    \E i \in 1..Len(task[f].logs) : task[f].logs[i].level \in {"warn", "error"}

\* C19: a file whose record stream yields no row is logged as an anomaly
\* and still gets exactly one index-log row, with num_rows = 0, start_id =
\* u32::MAX and start_period_dt = u64::MAX.
C19_ZeroRowFile ==
    \A f \in FileIds :
        (task[f].pc = "ok" /\ task[f].written = U64(0)) =>
            /\ Cardinality(LogRowsOf(f)) = 1
            /\ \A i \in LogRowsOf(f) :
                  /\ index_log[i].num_rows = AsU32(U64(0))
                  /\ index_log[i].start_id = U32Max
                  /\ index_log[i].start_period_dt = U64Max
            /\ AnomalyLogged(f)

(***************************************************************************)
(* The accumulator's laws                                                  *)
(***************************************************************************)
\* C21: the accumulator is a monoid: the default value is a left and a right
\* identity of addition, and (a + b) + c = a + (b + c) for all a, b, c, each
\* sum being a value.
C21_QuantitiesMonoid ==
    returned.fn = "add_assign laws" =>
        /\ returned.default_plus_a = Ok(applied.a)
        /\ returned.a_plus_default = Ok(applied.a)
        /\ returned.ab_c.ok
        /\ returned.a_bc.ok
        /\ returned.ab_c.val = returned.a_bc.val

(***************************************************************************)
(* Downloader::get_files                                                   *)
(***************************************************************************)
\* The sizes of the per-pair collections, added up
RECURSIVE SumOfSizes(_, _)
SumOfSizes(outcomes, from) ==
    IF from > Len(outcomes) THEN 0
    ELSE Len(outcomes[from].val) + SumOfSizes(outcomes, from + 1)

\* C24: when the pairs are known (or listed) and every pair's listing and
\* pairing succeed, get_files stores the collection of exactly the Files of
\* all pairs, as many as the per-pair sizes add up to; when one of them
\* fails, get_files fails and no collection is stored.
C24_GetFilesAllOrNothing ==
    returned.fn = "get_files" =>
        IF /\ applied.pairs_known \/ applied.get_pairs_ok
           /\ \A i \in 1..Len(applied.outcomes) : applied.outcomes[i].ok
        THEN /\ returned.res.ok
             /\ IsSome(returned.files)
             /\ Len(Unwrap(returned.files)) = SumOfSizes(applied.outcomes, 1)
             /\ {Unwrap(returned.files)[k] : k \in 1..Len(Unwrap(returned.files))}
                  = UNION {{<<i, applied.outcomes[i].val[k]>> :
                               k \in 1..Len(applied.outcomes[i].val)} :
                           i \in 1..Len(applied.outcomes)}
        ELSE /\ ~returned.res.ok
             /\ returned.files = None

\* C24's case: the pairs were listed by get_files itself, two pairs gave
\* one and two Files, and the stored collection has the three.
C24_Witness ==
    /\ returned.fn = "get_files"
    /\ ~applied.pairs_known
    /\ Len(applied.outcomes) = 2
    /\ applied.outcomes[1] = Ok(<<"f1">>)
    /\ applied.outcomes[2] = Ok(<<"f1", "f2">>)
    /\ returned.res.ok
    /\ Len(Unwrap(returned.files)) = 3

(***************************************************************************)
(* The order of a File Collection                                          *)
(***************************************************************************)
\* The archive keys of a listing in the order of their first occurrence
RECURSIVE ArchivesInOrder(_, _)
ArchivesInOrder(objects, suffix) ==
    IF objects = <<>> THEN <<>>
    ELSE LET front == ArchivesInOrder(SubSeq(objects, 1, Len(objects) - 1), suffix)
             last == objects[Len(objects)]
         IN  IF EndsWith(last, suffix) \/ (\E i \in 1..Len(front) : front[i] = last)
             THEN front
             ELSE Append(front, last)

\* C29: the collection from_objects returns holds the Files in the order of
\* the archives in the object list, so that two applications to the same
\* list give the same order.
C29_CollectionInInputOrder ==
    (returned.fn = "from_objects" /\ returned.res.ok) =>
        [i \in 1..Len(returned.res.val) |-> returned.res.val[i].object_key]
            = ArchivesInOrder(applied.objects, applied.checksum_suffix)

(***************************************************************************)
(* The string forms of the enums                                           *)
(***************************************************************************)
\* The lower-cased names, written out
LowercasedNames ==
    {<<"f", "u", "t", "u", "r", "e", "s">>, <<"o", "p", "t", "i", "o", "n">>,
     <<"s", "p", "o", "t">>, <<"d", "a", "i", "l", "y">>,
     <<"m", "o", "n", "t", "h", "l", "y">>,
     <<"a", "g", "g", "t", "r", "a", "d", "e", "s">>, <<"k", "l", "i", "n", "e", "s">>,
     <<"t", "r", "a", "d", "e", "s">>}

\* Two texts that differ at most in the case of their letters
SameLetters(a, b) ==
    /\ Len(a) = Len(b)
    /\ \A i \in 1..Len(a) :
          \/ a[i] = b[i]
          \/ \E k \in 1..Len(UpperLetters) :
                {a[i], b[i]} = {UpperLetters[k], LowerLetters[k]}

\* C30: the string form, the Display form and the path form of a variant
\* are one string, the variant's name in lower case, and no other variant
\* of its type has that string.
C30_EnumStringForms ==
    returned.fn = "as_str" =>
        /\ returned.as_str \in LowercasedNames
        /\ SameLetters(returned.as_str, applied.variant)
        /\ returned.display = returned.as_str
        /\ returned.as_ref = returned.as_str
        /\ \A other \in VariantNames[applied.type] \ {applied.variant} :
              AsStr(other) # returned.as_str

\* C30's case: AggTrades has been given the form aggtrades.
C30_Witness ==
    /\ returned.fn = "as_str"
    /\ applied.variant = <<"A", "g", "g", "T", "r", "a", "d", "e", "s">>
    /\ returned.as_str = <<"a", "g", "g", "t", "r", "a", "d", "e", "s">>
    /\ returned.display = <<"a", "g", "g", "t", "r", "a", "d", "e", "s">>

(***************************************************************************)
(* Attempts on one local path                                              *)
(***************************************************************************)
\* The attempts that have passed create_new on path p and are writing it
Writers(p) == {t \in CallIds : calls[t].pc = "stream" /\ calls[t].path = p}

\* C26: of the attempts on one local path at most one at a time has passed
\* the exclusive create and is writing the file, and an attempt whose
\* get_object_to_file finds the path present fails without changing the
\* file.
C26_ExclusiveCreate ==
    /\ [](\A p \in Paths : Cardinality(Writers(p)) <= 1)
    /\ [][\A t \in CallIds :
            (calls[t].pc = "create" /\ disk[calls[t].path] # "absent" /\ calls'[t] # calls[t])
                => /\ calls'[t].pc = "done"
                   /\ calls'[t].result = "err_exists"
                   /\ disk' = disk]_vars

\* C26's case: two attempts on one path, one writing the file and the other
\* turned away by the exclusive create while the file is as the writer left
\* it.
C26_Witness ==
    \E t, u \in CallIds :
        /\ t # u
        /\ calls[t].path = calls[u].path
        /\ calls[t].pc = "stream"
        /\ calls[u].pc = "done"
        /\ calls[u].result = "err_exists"
        /\ ~calls[u].on_disk_before
        /\ disk[calls[t].path] = "partial"

(***************************************************************************)
(* After index() has returned                                              *)
(***************************************************************************)
\* C25: once index() has returned, early or not, no download and no
\* index_file task takes another step: nothing more is written to the disk,
\* to the trades table or to the index log.
C25_ReturnAbortsTasks ==
    [][main.pc = "done" =>
          /\ task' = task
          /\ index_log' = index_log
          /\ dl' = dl]_vars

(***************************************************************************)
(* Permits                                                                 *)
(***************************************************************************)
\* C22: while a File Collection is downloaded, never more than 50
\* File.download operations are in flight, nor more than 50 futures
\* unfinished, whatever the collection's size and the order of completions.
C22_DownloadsBounded ==
    /\ pool.downloading <= DownloadConcurrency
    /\ pool.downloading + pool.sending <= DownloadConcurrency

\* C22's case: 50 downloads in flight, more Files waiting for a slot, and
\* some downloads already over.
C22_Witness ==
    /\ pool.downloading = DownloadConcurrency
    /\ pool.waiting > 0
    /\ pool.finished > 0

\* C23: never more than 10 index_file tasks run, and every permit not held
\* by a running task is free: a task that ended, with Ok or with Err, has
\* given its permit back.
C23_IndexersBounded ==
    /\ indexers.running <= IndexParallelism
    /\ indexers.permits = IndexParallelism - indexers.running

\* C23's case: 10 tasks run and a File waits for a permit after some task
\* has failed and some task has succeeded.
C23_Witness ==
    /\ indexers.running = IndexParallelism
    /\ indexers.held = 1
    /\ indexers.failed > 0
    /\ indexers.ok > 0

(***************************************************************************)
(* Rows in source order                                                    *)
(***************************************************************************)
\* The rows a stream yields before its first error, if any
RECURSIVE YieldedRows(_)
YieldedRows(records) ==
    IF records = <<>> \/ ~Head(records).ok THEN <<>>
    ELSE <<Head(records).val>> \o YieldedRows(Tail(records))

\* The rows of a stream as TradesRows of a pair, in the stream's order
InSourceOrder(pair, records) ==
    [i \in 1..Len(YieldedRows(records)) |-> TradesRowNew(pair, YieldedRows(records)[i])]

\* C27: what a task has written to its inserter is at every moment the
\* rows its stream has yielded so far, in the stream's order, and when the
\* task reaches inserter.end() it is all of the stream's rows: none skipped,
\* repeated or out of place, whatever the other task does in between.
C27_RowsInSourceOrder ==
    \A t \in RowTasks :
        /\ Len(stream[t].inserter) <= Len(YieldedRows(stream[t].records))
        /\ stream[t].inserter =
               SubSeq(InSourceOrder(PairOf(t), stream[t].records), 1, Len(stream[t].inserter))
        /\ stream[t].pc = "ended" =>
               /\ Len(YieldedRows(stream[t].records)) = Len(stream[t].records)
               /\ stream[t].inserter = InSourceOrder(PairOf(t), stream[t].records)

\* C27's case: one task has ended with two different rows written while the
\* other, half-way through its own two rows, has written one.
C27_Witness ==
    \E t, u \in RowTasks :
        /\ t # u
        /\ stream[t].pc = "ended"
        /\ Len(stream[t].inserter) = 2
        /\ stream[t].inserter[1].id # stream[t].inserter[2].id
        /\ stream[u].pc = "loop"
        /\ Len(stream[u].inserter) = 1
        /\ Len(YieldedRows(stream[u].records)) = 2

(***************************************************************************)
(* Re-indexing                                                             *)
(***************************************************************************)
\* The positions of the rows of a file and a table
RowsOf(rows, filename, table) ==
    {i \in 1..Len(rows) : rows[i].filename = filename /\ rows[i].table = table}

\* C28: once the index log has been merged, each file that was indexed into
\* a table, however many times, has exactly one row there, and that row
\* carries the latest index_dt of its runs.
C28_ReindexOverwrites ==
    log_merged =>
        \A filename \in LogFiles, table \in LogTables :
            RowsOf(index_runs, filename, table) # {} =>
                /\ Cardinality(RowsOf(log_table, filename, table)) = 1
                /\ \A i \in RowsOf(log_table, filename, table) :
                      \A j \in RowsOf(index_runs, filename, table) :
                          log_table[i].index_dt >= index_runs[j].index_dt

\* C28's case: a file indexed twice into one table, the later run with the
\* earlier time, and another file indexed too; the merged table holds two
\* rows.
C28_Witness ==
    /\ log_merged
    /\ Len(index_runs) = 3
    /\ Len(log_table) = 2
    /\ \E i, j \in 1..Len(index_runs) :
          /\ i < j
          /\ index_runs[i].filename = index_runs[j].filename
          /\ index_runs[i].table = index_runs[j].table
          /\ index_runs[i].index_dt > index_runs[j].index_dt

(***************************************************************************)
(* What a failed download leaves behind                                    *)
(***************************************************************************)
\* The calls that failed before the checksums were compared
FailedUnverified ==
    {t \in CallIds : calls[t].pc = "done"
                     /\ calls[t].result \in {"err_fetch", "err_checksum_read"}}

\* C32: a file goes away only when the call that wrote it finds a checksum
\* mismatch; a call that failed while streaming or while reading the
\* checksum object leaves at path what it wrote, and a download() of that
\* path invoked afterwards returns Ok at once, with no GET and no
\* comparison, leaving the file as it is.
C32_UnverifiedFileStays ==
    /\ [](\A t \in FailedUnverified :
             /\ calls[t].at_return # "absent"
             /\ disk[calls[t].path] = calls[t].at_return)
    /\ [][\A p \in Paths :
             (disk[p] # "absent" /\ disk'[p] = "absent") =>
                 \E t \in CallIds :
                     /\ calls[t].path = p
                     /\ calls[t].pc = "remove"
                     /\ calls'[t].result = "checksum_mismatch"]_vars
    /\ [][\A t \in FailedUnverified : \A u \in CallIds :
             (calls[u].pc = "idle" /\ calls'[u].pc # "idle"
              /\ calls'[u].path = calls[t].path) =>
                 /\ calls'[u].pc = "done"
                 /\ calls'[u].result = "ok"
                 /\ calls'[u].gets = 0
                 /\ ~calls'[u].checksum_read
                 /\ disk' = disk]_vars

\* C32's case: the first call of a path failed while streaming, and a second
\* call of the path has returned Ok with the unfinished file in place.
C32_Witness ==
    \E t, u \in CallIds :
        /\ t # u
        /\ calls[t].path = calls[u].path
        /\ calls[t].pc = "done" /\ calls[t].result = "err_fetch"
        /\ calls[t].at_call = "absent"
        /\ calls[u].pc = "done" /\ calls[u].result = "ok" /\ calls[u].gets = 0
        /\ calls[u].at_call = "partial"
        /\ disk[calls[u].path] = "partial"

\* C33: when a download() of a path has returned Ok, so that its File goes
\* out on the stream, no other call of that path is still writing the file
\* or has its checksum comparison, and a possible removal, ahead of it.
C33_EmittedAfterCompletion ==
    \A u \in CallIds :
        (calls[u].pc = "done" /\ calls[u].result = "ok") =>
            \A t \in CallIds \ {u} :
                calls[t].path = calls[u].path =>
                    calls[t].pc \notin {"stream", "checksum", "remove"}

(***************************************************************************)
(* The index-log row comes last; the stages lose and repeat nothing        *)
(***************************************************************************)
\* C34: a file has an index-log row only when its task got through
\* inserter.end(), which flushed every row it wrote, and a task that failed
\* at any step has left no index-log row.
C34_LogRowAfterFlush ==
    \A f \in FileIds :
        /\ LogRowsOf(f) # {} =>
              /\ task[f].pc = "ok"
              /\ task[f].pending = U64(0)
              /\ task[f].stats_rows = task[f].written
              /\ \E i \in 1..Len(task[f].logs) : task[f].logs[i].message = "Indexed in"
        /\ task[f].pc \in {"records", "stream", "end", "log", "err"} => LogRowsOf(f) = {}

\* C34's case: one file has its index-log row after its rows were flushed,
\* and another, which failed after writing a row, has none.
C34_Witness ==
    \E f, g \in FileIds :
        /\ LogRowsOf(f) # {}
        /\ task[f].written # U64(0)
        /\ task[g].pc = "err"
        /\ task[g].written = U64(1)
        /\ LogRowsOf(g) = {}

\* The File the dispatch loop holds while it waits for a permit
HeldFile == IF main.held = 0 THEN <<>> ELSE <<main.held>>

\* C37: the Files handed to index_file, the one the loop holds and those in
\* the channel's buffer are, in this order, the Files the stream has
\* emitted: none is lost, repeated or made up; and once the loop is over,
\* every emitted File has been handed to index_file, exactly once.
C37_EmittedDispatchedOnce ==
    /\ main.handles \o HeldFile \o chan = emitted
    /\ \A i, j \in 1..Len(main.handles) : main.handles[i] = main.handles[j] => i = j
    /\ Dispatched = {main.handles[i] : i \in 1..Len(main.handles)}
    /\ main.pc \in {"collect", "done"} => main.handles = emitted

\* C37's case: index() has returned after a stream of two Files.
C37_Witness ==
    /\ main.pc = "done"
    /\ Len(emitted) = 2
    /\ Len(main.handles) = 2
    /\ \A f \in 1..2 : task[f].pc # "none"

(***************************************************************************)
(* The names in the index-log row                                          *)
(***************************************************************************)
\* C38: the row's database field is the database the rows went into, the
\* configured name in upper case, and its table field is the table name in
\* upper case, in whatever letter case the names were given.
C38_RowNamesUppercased ==
    returned.fn = "index_row names" =>
        /\ returned.row.database = returned.inserted_into
        /\ returned.row.database = ToUppercase(applied.database)
        /\ returned.row.table = ToUppercase(applied.name)

(***************************************************************************)
(* Commit points                                                           *)
(***************************************************************************)
\* C31: commit has been called once after each 8192nd write and at no other
\* time, the 16-bit counter is below 8192 whenever a row is read and has
\* never overflowed, and end is called once, after the last row, when the
\* file has been read through.
C31_CommitEvery8192 ==
    /\ ~batch.overflowed
    /\ batch.pc = "loop" => (batch.tx < CommitEvery /\ batch.tx = batch.read % CommitEvery)
    /\ batch.pc = "commit" => batch.read % CommitEvery = 0
    /\ Len(batch.commits) =
          (batch.read \div CommitEvery) - (IF batch.pc = "commit" THEN 1 ELSE 0)
    /\ \A k \in 1..Len(batch.commits) : batch.commits[k] = CommitEvery * k
    /\ batch.pc \in {"log", "ok"} =>
          /\ batch.ends = 1
          /\ batch.read = batch.n
          /\ Len(batch.commits) = batch.n \div CommitEvery
    /\ batch.pc \in {"loop", "commit"} => batch.ends = 0

\* C31's case: a file of 2 * 8192 + 1 rows has been read through, with two
\* commits and one end.
C31_Witness ==
    /\ batch.pc = "ok"
    /\ batch.n = 2 * CommitEvery + 1
    /\ batch.commits = <<CommitEvery, 2 * CommitEvery>>
    /\ batch.ends = 1

\* C39: when index_file has come to its end, rows of the file are in the
\* trades table only if the file has its index-log row; a file that failed
\* has left none.
C39_RowsOnlyWithLogRow ==
    batch.pc \in {"ok", "err"} => (batch.flushed > 0 => batch.logged)

(***************************************************************************)
(* index() returns; the work in hand is bounded                            *)
(***************************************************************************)
\* C35: in the end index() has returned and the channel, if the fetch task
\* was ever spawned, is closed.
C35_IndexTerminates ==
    <>(pipe.pc = "done" /\ pipe.fetch \in {"unspawned", "done"})

\* C35's case: a download has ended and its send waits, for the buffer is
\* full, the loop holds a File and no permit is free.
C35_Witness ==
    /\ pipe.pc = "recv"
    /\ pipe.sending > 0
    /\ pipe.chan = ChannelCapacity
    /\ pipe.held = 1
    /\ pipe.permits = 0

\* C36: the Files downloaded and not yet handed to index_file are at most
\* 50 + 10 + 1, and the futures of for_each_concurrent at most 50: a
\* download is not started while 50 Files wait to be sent.
C36_BacklogBounded ==
    /\ backlog.sending + backlog.chan + backlog.held
          <= DownloadConcurrency + ChannelCapacity + 1
    /\ backlog.downloading + backlog.sending <= DownloadConcurrency

\* C36's case: 50 sends wait, the buffer is full, the loop holds a File and
\* all 10 index_file tasks run.
C36_Witness ==
    /\ backlog.sending = DownloadConcurrency
    /\ backlog.chan = ChannelCapacity
    /\ backlog.held = 1
    /\ backlog.running = IndexParallelism

====
